---- MODULE Spec2Model ----
(***************************************************************************)
(* TinyScript: the compiler of src/compiler/function.rs and compiler.rs    *)
(* and the stack machine of src/vm/mod.rs, frame.rs and value.rs.          *)
(*                                                                         *)
(* Shared collections (Rc<RefCell<..>>) are cells of a heap; a value that  *)
(* holds one carries the cell's address.  Instruction indices are          *)
(* zero-based as in the code: instruction i is instructions[i + 1].        *)
(***************************************************************************)
EXTENDS Integers, Sequences, FiniteSets, TLC

VARIABLES
    progId,           \* which program the VM was built from
    instructions,     \* VM.instructions
    functions,        \* VM.functions: the symbol table, name -> offset
    globals,          \* VM.globals
    frames,           \* VM.frames
    ip,               \* VM.ip
    heap,             \* the backing stores of all Rc<RefCell<..>> values
    status,           \* "init", "running", "done" (Ok) or "failed" (panic)
    result,           \* the value exec returns
    overflow_checks,  \* build profile: TRUE panics on integer overflow, FALSE wraps
    entry,            \* the entry name exec was called with
    last              \* history: the instruction executed last and what it saw

vars == <<progId, instructions, functions, globals, frames, ip, heap, status,
          result, overflow_checks, entry, last>>

(***************************************************************************)
(* Bounds of the workloads.                                                *)
(***************************************************************************)
RecDepth == 2
LoopCount == 2
\* the frame stack is explored up to this depth; a Call beyond it is not taken
MaxFrames == RecDepth + 4

(***************************************************************************)
(* Values (vm/value.rs).                                                   *)
(***************************************************************************)
EmptyMap == [x \in {} |-> 0]

MkVal(t, n, s) == [t |-> t, n |-> n, s |-> s]
NullV == MkVal("Null", 0, "")
IntV(i) == MkVal("Integer", i, "")
BoolV(b) == MkVal("Bool", IF b THEN 1 ELSE 0, "")
StrV(s) == MkVal("String", 0, s)
FRefV(name) == MkVal("FunctionRef", 0, name)
ArrayV(a) == MkVal("Array", a, "")
DictV(a) == MkVal("Dictionary", a, "")
ObjectV(a) == MkVal("Object", a, "")
ClassV(m) == [t |-> "Class", n |-> 0, s |-> "", m |-> m]

IsShared(v) == v.t \in {"Array", "Dictionary", "Object"}

\* a backing store: the Vec of an array, or the HashMap of a dictionary / object
ArrayCell(items) == [k |-> "Array", items |-> items, map |-> EmptyMap]
MapCell(k, m) == [k |-> k, items |-> <<>>, map |-> m]

MapInsert(m, key, v) ==
    [x \in (DOMAIN m) \cup {key} |-> IF x = key THEN v ELSE m[x]]

\* i32.  The checker's integers are 32 bits wide themselves, so a sum or a product
\* is tested for overflow, and wrapped, without ever leaving the i32 range.
I32Max == 2147483647
I32Min == -I32Max - 1

AddOverflows(a, b) == (b > 0 /\ a > I32Max - b) \/ (b < 0 /\ a < I32Min - b)
WrappingAdd(a, b) ==
    IF ~AddOverflows(a, b) THEN a + b
    ELSE IF b > 0 THEN (a + I32Min) + (b + I32Min)
    ELSE (a - I32Min) + (b - I32Min)

SubOverflows(a, b) == (b < 0 /\ a > I32Max + b) \/ (b > 0 /\ a < I32Min + b)
WrappingSub(a, b) ==
    IF ~SubOverflows(a, b) THEN a - b
    ELSE IF b < 0 THEN (a + I32Min) - (b - I32Min)
    ELSE (a - I32Min) - (b + I32Min)

\* the bytes of the two's complement form, low byte first
Byte(a, i) == (a \div (CASE i = 0 -> 1 [] i = 1 -> 256 [] i = 2 -> 65536
                         [] OTHER -> 16777216)) % 256
WrappingMul(a, b) ==
    LET c0 == Byte(a, 0) * Byte(b, 0)
        c1 == Byte(a, 0) * Byte(b, 1) + Byte(a, 1) * Byte(b, 0) + (c0 \div 256)
        c2 == Byte(a, 0) * Byte(b, 2) + Byte(a, 1) * Byte(b, 1)
              + Byte(a, 2) * Byte(b, 0) + (c1 \div 256)
        c3 == Byte(a, 0) * Byte(b, 3) + Byte(a, 1) * Byte(b, 2)
              + Byte(a, 2) * Byte(b, 1) + Byte(a, 3) * Byte(b, 0) + (c2 \div 256)
        top == c3 % 256
    IN  (c0 % 256) + 256 * (c1 % 256) + 65536 * (c2 % 256)
        + 16777216 * (IF top >= 128 THEN top - 256 ELSE top)
MulOverflows(a, b) ==
    CASE a = 0 \/ b = 0 -> FALSE
      [] a = -1 -> b = I32Min
      [] b = -1 -> a = I32Min
      [] a = I32Min \/ b = I32Min -> ~(a = 1 \/ b = 1)
      [] OTHER ->
            LET r == WrappingMul(a, b)
                aa == IF a < 0 THEN -a ELSE a
            IN  ~(r % aa = 0 /\ r \div a = b)

Digit(d) == CASE d = 0 -> "0" [] d = 1 -> "1" [] d = 2 -> "2" [] d = 3 -> "3"
              [] d = 4 -> "4" [] d = 5 -> "5" [] d = 6 -> "6" [] d = 7 -> "7"
              [] d = 8 -> "8" [] OTHER -> "9"

RECURSIVE NatToString(_)
NatToString(n) == IF n < 10 THEN Digit(n) ELSE NatToString(n \div 10) \o Digit(n % 10)

IntToString(n) == IF n < 0 THEN "-" \o NatToString(-n) ELSE NatToString(n)

(***************************************************************************)
(* f32 (vm/value.rs, Value::Float).  A finite value other than zero is     *)
(* n * 2^e with n odd; s names the other values: "-0", "inf", "-inf" and   *)
(* "NaN".  Arithmetic rounds to nearest, ties to even, as IEEE 754 does.   *)
(***************************************************************************)
F32Val(n, e, s) == [t |-> "Float", n |-> n, s |-> s, e |-> e]
F32Zero(neg) == F32Val(0, 0, IF neg THEN "-0" ELSE "")
F32Inf(neg) == F32Val(0, 0, IF neg THEN "-inf" ELSE "inf")
F32NaN == F32Val(0, 0, "NaN")

\* Op at the values of its arguments, each argument evaluated once
Eval2(Op(_, _), x, y) == CHOOSE r \in {Op(u, v) : u \in {x}, v \in {y}} : TRUE
Eval3(Op(_, _, _), x, y, z) ==
    CHOOSE r \in {Op(u, v, w) : u \in {x}, v \in {y}, w \in {z}} : TRUE

MantissaBits == 24
\* the exponent of the smallest subnormal, and one past that of the largest finite
MinExp == -149
MaxTop == 128

RECURSIVE BitLen(_)
BitLen(m) == IF m = 0 THEN 0 ELSE 1 + BitLen(m \div 2)

Abs(x) == IF x < 0 THEN -x ELSE x
MaxOf(S) == CHOOSE x \in S : \A y \in S : y <= x

RECURSIVE F32Odd(_, _, _)
F32Odd(neg, mag, e) ==
    IF mag % 2 = 0 THEN F32Odd(neg, mag \div 2, e + 1)
    ELSE F32Val(IF neg THEN -mag ELSE mag, e, "")

\* round to nearest, ties to even: the quotient q of a division by 2 * half that
\* left the remainder r
RoundHalfEven(q, r, half) ==
    IF r > half \/ (r = half /\ q % 2 = 1) THEN q + 1 ELSE q

\* mag, of the given number of bits, without its lowest k bits, rounded
RoundedQuotient(mag, bits, k) ==
    CASE k = 0 -> mag
      [] k > bits -> 0
      [] k = bits -> (IF mag > 2 ^ (bits - 1) THEN 1 ELSE 0)
      [] OTHER -> RoundHalfEven(mag \div (2 ^ k), mag % (2 ^ k), 2 ^ (k - 1))

\* the bits that do not fit: those beyond the mantissa, or below the smallest subnormal
RoundShift(bits, e) == MaxOf({bits - MantissaBits, MinExp - e, 0})

F32Pack(neg, q, e) ==
    IF q = 0 THEN F32Zero(neg)
    ELSE IF e + BitLen(q) > MaxTop THEN F32Inf(neg)
    ELSE F32Odd(neg, q, e)

F32RoundAt(neg, mag, e, bits, k) ==
    Eval3(F32Pack, neg, RoundedQuotient(mag, bits, k), e + k)
F32RoundBits(neg, mag, e, bits) == F32RoundAt(neg, mag, e, bits, RoundShift(bits, e))
F32RoundValue(neg, mag, e) == F32RoundBits(neg, mag, e, BitLen(mag))

\* the f32 nearest to mag * 2^e, of the given sign.  A mag whose lowest bit stands
\* for "and something below" rounds correctly when it has two bits to spare.
F32Round(neg, mag, e) == Eval3(F32RoundValue, neg, mag, e)

\* `v as f32`
IntToF32(v) ==
    IF v = I32Min THEN F32Val(-1, 31, "") ELSE F32Round(v < 0, Abs(v), 0)

F32IsNaN(a) == a.s = "NaN"
F32IsInf(a) == a.s \in {"inf", "-inf"}
F32IsZero(a) == a.n = 0 /\ a.s \in {"", "-0"}
F32Neg(a) == a.n < 0 \/ a.s \in {"-0", "-inf"}

F32Negate(a) ==
    CASE F32IsNaN(a) -> a
      [] F32IsInf(a) -> F32Inf(~F32Neg(a))
      [] F32IsZero(a) -> F32Zero(~F32Neg(a))
      [] OTHER -> [a EXCEPT !.n = -a.n]

\* f32 ==
F32Eq(a, b) ==
    /\ ~F32IsNaN(a) /\ ~F32IsNaN(b)
    /\ a.n = b.n /\ a.e = b.e
    /\ (a.s = b.s \/ (F32IsZero(a) /\ F32IsZero(b)))

\* the order of the magnitudes x * 2^(top - bits) of two finite values: by the
\* place of the highest bit, then by the mantissas at one exponent
MagnitudeOrder(x, ex, y, ey) ==
    CASE ex + BitLen(x) < ey + BitLen(y) -> -1
      [] ex + BitLen(x) > ey + BitLen(y) -> 1
      [] ex >= ey -> (IF x * 2 ^ (ex - ey) < y THEN -1
                      ELSE IF x * 2 ^ (ex - ey) = y THEN 0 ELSE 1)
      [] OTHER -> (IF x < y * 2 ^ (ey - ex) THEN -1
                   ELSE IF x = y * 2 ^ (ey - ex) THEN 0 ELSE 1)
MagnitudeCmp(a, b) == MagnitudeOrder(Abs(a.n), a.e, Abs(b.n), b.e)

\* a place on the line: -2 and 2 the infinities, -1 and 1 the finite values, 0 zero
F32Class(a) ==
    CASE F32IsInf(a) -> (IF F32Neg(a) THEN -2 ELSE 2)
      [] F32IsZero(a) -> 0
      [] OTHER -> (IF F32Neg(a) THEN -1 ELSE 1)

F32ClassCmp(a, b, ca, cb) ==
    CASE ca /= cb -> (IF ca < cb THEN -1 ELSE 1)
      [] ca \in {-2, 0, 2} -> 0
      [] ca = 1 -> MagnitudeCmp(a, b)
      [] OTHER -> MagnitudeCmp(b, a)

F32CmpValues(a, b) ==
    IF F32IsNaN(a) \/ F32IsNaN(b) THEN 3 ELSE F32ClassCmp(a, b, F32Class(a), F32Class(b))

\* f32::partial_cmp: -1, 0, 1, or 3 for None
F32Cmp(a, b) == Eval2(F32CmpValues, a, b)

Signed(neg, mag) == IF neg THEN -mag ELSE mag

\* y without its lowest d bits, and one more bit that tells whether any of them was set
StickyShift(y, d) ==
    IF d > MantissaBits + 3 THEN 1
    ELSE 2 * (y \div (2 ^ d)) + (IF y % (2 ^ d) /= 0 THEN 1 ELSE 0)

AddSum(sum, e) ==
    IF sum = 0 THEN F32Zero(FALSE) ELSE F32Round(sum < 0, Abs(sum), e)

\* x * 2^ex + y * 2^ey for ex >= ey
AddOrdered(xNeg, x, ex, yNeg, y, ey) ==
    Eval2(AddSum, Signed(xNeg, 2 * x) + Signed(yNeg, StickyShift(y, ex - ey)), ex - 1)

AddJustified(aNeg, ma, ea, bNeg, mb, eb) ==
    IF ea >= eb THEN AddOrdered(aNeg, ma, ea, bNeg, mb, eb)
    ELSE AddOrdered(bNeg, mb, eb, aNeg, ma, ea)

\* the shift that gives the mantissa n three bits more than an f32 holds
Spare(n) == MantissaBits + 3 - BitLen(Abs(n))

F32AddValues(a, b) ==
    CASE F32IsNaN(a) \/ F32IsNaN(b) -> F32NaN
      [] F32IsInf(a) /\ F32IsInf(b) -> (IF a.s = b.s THEN a ELSE F32NaN)
      [] F32IsInf(a) -> a
      [] F32IsInf(b) -> b
      [] F32IsZero(a) /\ F32IsZero(b) -> F32Zero(F32Neg(a) /\ F32Neg(b))
      [] F32IsZero(a) -> b
      [] F32IsZero(b) -> a
      [] OTHER -> AddJustified(F32Neg(a), Abs(a.n) * 2 ^ Spare(a.n), a.e - Spare(a.n),
                               F32Neg(b), Abs(b.n) * 2 ^ Spare(b.n), b.e - Spare(b.n))

\* f32 +
F32Add(a, b) == Eval2(F32AddValues, a, b)

\* f32 -
F32Sub(a, b) == F32Add(a, F32Negate(b))

\* the product hi * 2^24 + lo of two mantissas, cut to 28 bits; d = BitLen(hi) - 3
MulTop(neg, hi, lo, e, d) ==
    IF d <= 0 THEN F32Round(neg, hi * 2 ^ 24 + lo, e)
    ELSE F32Round(neg,
                  2 * (hi * 2 ^ (24 - d) + lo \div (2 ^ d))
                    + (IF lo % (2 ^ d) /= 0 THEN 1 ELSE 0),
                  e + d - 1)
MulHiLo(neg, hi, lo, e) == MulTop(neg, hi, lo, e, BitLen(hi) - 3)
MulLo(neg, hiPart, loSum, e) ==
    MulHiLo(neg, hiPart + loSum \div (2 ^ 24), loSum % (2 ^ 24), e)
MulCross(neg, hh, cross, ll, e) ==
    MulLo(neg, hh + cross \div (2 ^ 12), ll + (cross % (2 ^ 12)) * 2 ^ 12, e)
\* (a1 * 2^12 + a0) * (b1 * 2^12 + b0) * 2^e, in limbs of 12 bits
MulLimbs(neg, a1, a0, b1, b0, e) ==
    MulCross(neg, a1 * b1, a1 * b0 + a0 * b1, a0 * b0, e)

\* the sign of a product or a quotient
SignOf(a, b) == F32Neg(a) /= F32Neg(b)

F32MulValues(a, b) ==
    CASE F32IsNaN(a) \/ F32IsNaN(b) -> F32NaN
      [] F32IsInf(a) \/ F32IsInf(b) ->
            (IF F32IsZero(a) \/ F32IsZero(b) THEN F32NaN ELSE F32Inf(SignOf(a, b)))
      [] F32IsZero(a) \/ F32IsZero(b) -> F32Zero(SignOf(a, b))
      [] OTHER -> MulLimbs(SignOf(a, b), Abs(a.n) \div (2 ^ 12), Abs(a.n) % (2 ^ 12),
                           Abs(b.n) \div (2 ^ 12), Abs(b.n) % (2 ^ 12), a.e + b.e)

\* f32 *
F32Mul(a, b) == Eval2(F32MulValues, a, b)

\* the quotient by long division, until it is exact or has 26 bits
RECURSIVE DivBits(_, _, _, _)
DivBits(q, r, B, e) ==
    IF r = 0 \/ q >= 2 ^ (MantissaBits + 1) THEN <<q, r, e>>
    ELSE IF 2 * r >= B THEN DivBits(2 * q + 1, 2 * r - B, B, e - 1)
    ELSE DivBits(2 * q, 2 * r, B, e - 1)

\* the f32 of a quotient q * 2^e that left the remainder r
DivRound(neg, q, r, e) ==
    IF r = 0 THEN F32Round(neg, q, e) ELSE F32Round(neg, 2 * q + 1, e - 1)
DivRounded(neg, qre) == DivRound(neg, qre[1], qre[2], qre[3])

F32DivValues(a, b) ==
    CASE F32IsNaN(a) \/ F32IsNaN(b) -> F32NaN
      [] F32IsInf(a) -> (IF F32IsInf(b) THEN F32NaN ELSE F32Inf(SignOf(a, b)))
      [] F32IsInf(b) -> F32Zero(SignOf(a, b))
      [] F32IsZero(b) -> (IF F32IsZero(a) THEN F32NaN ELSE F32Inf(SignOf(a, b)))
      [] F32IsZero(a) -> F32Zero(SignOf(a, b))
      [] OTHER -> DivRounded(SignOf(a, b),
                             DivBits(Abs(a.n) \div Abs(b.n), Abs(a.n) % Abs(b.n),
                                     Abs(b.n), a.e - b.e))

\* f32 /
F32Div(a, b) == Eval2(F32DivValues, a, b)

\* Display of an f32 prints the shortest decimal that reads back as the same f32: for
\* a whole number below 2^24, and for a multiple of 1/8 below 2^10, that is the
\* exact expansion.  These are the Floats that the workloads print.
F32ToString(a) ==
    CASE F32IsNaN(a) -> "NaN"
      [] F32IsInf(a) -> a.s
      [] F32IsZero(a) -> (IF F32Neg(a) THEN "-0" ELSE "0")
      [] a.e >= 0 /\ a.e + BitLen(Abs(a.n)) <= MantissaBits -> IntToString(a.n * 2 ^ a.e)
      [] a.e \in -3..-1 /\ a.e + BitLen(Abs(a.n)) <= 10 ->
            (IF a.n < 0 THEN "-" ELSE "") \o NatToString(Abs(a.n) \div (2 ^ (-a.e)))
                \o "." \o NatToString((Abs(a.n) % (2 ^ (-a.e))) * 5 ^ (-a.e))

\* impl Display for Value; the remaining variants print "todo for " and their Debug
\* form, which starts with the variant's name
ValueToString(v) ==
    CASE v.t = "Null" -> "null"
      [] v.t = "Integer" -> IntToString(v.n)
      [] v.t = "Float" -> F32ToString(v)
      [] v.t = "Bool" -> (IF v.n = 1 THEN "true" ELSE "false")
      [] v.t = "String" -> v.s
      [] v.t = "Array" -> "Array"
      [] v.t = "FunctionRef" -> v.s
      [] OTHER -> "todo for " \o v.t

\* derived PartialEq: structural, through the Rc to the contents
RECURSIVE ValueEq(_, _, _)
ValueEq(a, b, h) ==
    IF a.t /= b.t THEN FALSE
    ELSE CASE a.t = "Array" ->
                 LET x == h[a.n].items
                     y == h[b.n].items
                 IN  /\ Len(x) = Len(y)
                     /\ \A i \in 1..Len(x) : ValueEq(x[i], y[i], h)
           [] a.t \in {"Dictionary", "Object"} ->
                 LET x == h[a.n].map
                     y == h[b.n].map
                 IN  /\ DOMAIN x = DOMAIN y
                     /\ \A key \in DOMAIN x : ValueEq(x[key], y[key], h)
           [] a.t = "Float" -> F32Eq(a, b)
           [] a.t = "Class" ->
                 /\ DOMAIN a.m = DOMAIN b.m
                 /\ \A key \in DOMAIN a.m : ValueEq(a.m[key], b.m[key], h)
           [] OTHER -> a.n = b.n /\ a.s = b.s

(***************************************************************************)
(* Instructions (vm/instruction.rs, with the names vm/mod.rs matches on).  *)
(***************************************************************************)
Ins(op, n, v) == [op |-> op, n |-> n, v |-> v]
I0(op) == Ins(op, 0, NullV)
InsN(op, n) == Ins(op, n, NullV)
StackPush(v) == Ins("StackPush", 0, v)
Return(b) == Ins("Return", IF b THEN 1 ELSE 0, NullV)

(***************************************************************************)
(* Frames (vm/frame.rs).  callIp and callDepth are history: the index of   *)
(* the Call that pushed the frame and the depth of the frame stack then;   *)
(* so is written: the slots that received a call argument or a store.      *)
(***************************************************************************)
NoReturn == -1

NewFrame(name, return_position, args, callIp, callDepth) ==
    [name |-> name, return_position |-> return_position, variables |-> args,
     data |-> <<>>, callIp |-> callIp, callDepth |-> callDepth,
     written |-> 0..(Len(args) - 1)]

\* Frame::push_value_to_variable_slot
RECURSIVE NullPad(_)
NullPad(n) == IF n <= 0 THEN <<>> ELSE Append(NullPad(n - 1), NullV)

push_value_to_variable_slot(variables, slot, value) ==
    LET grown == IF Len(variables) <= slot
                 THEN variables \o NullPad(slot + 1 - Len(variables))
                 ELSE variables
    IN  [grown EXCEPT ![slot + 1] = value]

Front(s) == SubSeq(s, 1, Len(s) - 1)
Top(s) == s[Len(s)]

RECURSIVE Reverse(_)
Reverse(s) == IF s = <<>> THEN <<>> ELSE Append(Reverse(Tail(s)), Head(s))

\* popped values handed over in the order they lie on the stack
pop_values_in_stack_order(data, count) ==
    SubSeq(data, Len(data) - count + 1, Len(data))

\* Frame::pop_values_from_stack: the values in the order they are popped
pop_values_from_stack(data, count) ==
    [i \in 1..count |-> data[Len(data) + 1 - i]]

(***************************************************************************)
(* Value arithmetic and comparison (vm/value.rs).  A result is             *)
(* [ok, v, heap]; ok = FALSE is a panic.                                   *)
(***************************************************************************)
Res(v, h) == [ok |-> TRUE, v |-> v, heap |-> h]
NoRes(h) == [ok |-> FALSE, v |-> NullV, heap |-> h]

\* an i32 operation: panics on overflow when overflow checks are on, wraps otherwise
I32Res(overflows, wrapped, h) ==
    IF overflows /\ overflow_checks THEN NoRes(h) ELSE Res(IntV(wrapped), h)

\* impl Add for Value
ValueAdd(a, b, h) ==
    CASE a.t = "Integer" /\ b.t = "Integer" ->
            I32Res(AddOverflows(a.n, b.n), WrappingAdd(a.n, b.n), h)
      [] a.t = "Integer" /\ b.t = "Float" -> Res(F32Add(IntToF32(a.n), b), h)
      [] a.t = "Integer" /\ b.t = "String" -> Res(StrV(IntToString(a.n) \o b.s), h)
      [] a.t = "Float" /\ b.t = "Integer" -> Res(F32Add(a, IntToF32(b.n)), h)
      [] a.t = "Float" /\ b.t = "Float" -> Res(F32Add(a, b), h)
      [] a.t = "String" /\ b.t = "String" -> Res(StrV(a.s \o b.s), h)
      [] a.t = "String" /\ b.t = "Bool" -> Res(StrV(a.s \o ValueToString(b)), h)
      [] a.t = "String" /\ b.t = "Integer" -> Res(StrV(a.s \o IntToString(b.n)), h)
      [] a.t = "String" /\ b.t = "Float" -> Res(StrV(a.s \o F32ToString(b)), h)
      [] a.t = "Array" /\ b.t = "Array" ->
            \* v1.borrow_mut() is taken before v2.borrow(): one Rc on both sides panics
            IF a.n = b.n THEN NoRes(h)
            ELSE Res(a, [h EXCEPT ![a.n].items = @ \o h[b.n].items])
      [] a.t = "Bool" /\ b.t = "Bool" -> Res(BoolV(a.n = 1 /\ b.n = 1), h)
      [] OTHER -> NoRes(h)

\* impl Sub for Value
ValueSub(a, b, h) ==
    CASE a.t = "Integer" /\ b.t = "Integer" ->
            I32Res(SubOverflows(a.n, b.n), WrappingSub(a.n, b.n), h)
      [] a.t = "Integer" /\ b.t = "Float" -> Res(F32Sub(IntToF32(a.n), b), h)
      [] a.t = "Float" /\ b.t = "Integer" -> Res(F32Sub(a, IntToF32(b.n)), h)
      [] a.t = "Float" /\ b.t = "Float" -> Res(F32Sub(a, b), h)
      [] OTHER -> NoRes(h)

\* impl Mul for Value
ValueMul(a, b, h) ==
    CASE a.t = "Integer" /\ b.t = "Integer" ->
            I32Res(MulOverflows(a.n, b.n), WrappingMul(a.n, b.n), h)
      [] a.t = "Integer" /\ b.t = "Float" -> Res(F32Mul(IntToF32(a.n), b), h)
      [] a.t = "Float" /\ b.t = "Integer" -> Res(F32Mul(a, IntToF32(b.n)), h)
      [] a.t = "Float" /\ b.t = "Float" -> Res(F32Mul(a, b), h)
      [] OTHER -> NoRes(h)

\* i32 division truncates toward zero
TruncDiv(x, y) ==
    LET ax == IF x < 0 THEN -x ELSE x
        ay == IF y < 0 THEN -y ELSE y
        q == ax \div ay
    IN  IF (x < 0) = (y < 0) THEN q ELSE -q

\* impl Div for Value: i32 division by zero and i32::MIN / -1 panic in every build;
\* an f32 division never panics
ValueDiv(a, b, h) ==
    CASE a.t = "Integer" /\ b.t = "Integer" ->
            IF b.n = 0 \/ (a.n = I32Min /\ b.n = -1) THEN NoRes(h)
            ELSE Res(IntV(TruncDiv(a.n, b.n)), h)
      [] a.t = "Integer" /\ b.t = "Float" -> Res(F32Div(IntToF32(a.n), b), h)
      [] a.t = "Float" /\ b.t = "Integer" -> Res(F32Div(a, IntToF32(b.n)), h)
      [] a.t = "Float" /\ b.t = "Float" -> Res(F32Div(a, b), h)
      [] OTHER -> NoRes(h)

\* impl PartialOrd for Value: -1, 0, 1, 3 for None, or 2 for unreachable!()
partial_cmp(a, b) ==
    CASE a.t = "Integer" /\ b.t = "Integer" ->
            (IF a.n < b.n THEN -1 ELSE IF a.n = b.n THEN 0 ELSE 1)
      [] a.t = "Float" /\ b.t = "Float" -> F32Cmp(a, b)
      [] OTHER -> 2

\* the operators <, <=, > and >= that PartialOrd provides: false on None

Compare(op, a, b, h) ==
    LET c == partial_cmp(a, b)
    IN  IF c = 2 THEN NoRes(h)
        ELSE Res(BoolV(CASE op = "LessThan" -> c = -1
                         [] op = "LessThanOrEqual" -> c \in {-1, 0}
                         [] op = "GreaterThan" -> c = 1
                         [] OTHER -> c \in {0, 1}), h)

(***************************************************************************)
(* The machine (vm/mod.rs).  A step yields an outcome: "next" (go on at    *)
(* ip with these frames and heap), "panic", "return" (the root frame       *)
(* returned result) or "halt" (break out of the loop).                     *)
(***************************************************************************)
Cur == instructions[ip + 1]
F == frames[Len(frames)]
WithFrame(f) == [frames EXCEPT ![Len(frames)] = f]

Out(k, i, fs, h, r) == [k |-> k, ip |-> i, frames |-> fs, heap |-> h, result |-> r]
Panic == Out("panic", ip, frames, heap, NullV)
\* the current frame becomes f and ip advances by one
Advance(f, h) == Out("next", ip + 1, WithFrame(f), h, NullV)
Popped(f, n) == [f EXCEPT !.data = SubSeq(@, 1, Len(@) - n)]
Pushed(f, v) == [f EXCEPT !.data = Append(@, v)]

\* Instruction::Assert
StepAssert ==
    IF F.data = <<>> THEN Panic
    ELSE LET output == Top(F.data)
         IN  IF output.t = "Bool" /\ output.n = 1 THEN Advance(Popped(F, 1), heap)
             ELSE Panic

\* Instruction::Print
StepPrint ==
    IF F.data = <<>> THEN Panic ELSE Advance(Popped(F, 1), heap)

\* a return position that skips the instruction after the Call
next_ip_skips_one(i) == i + 2

\* a return position that is the Call itself
next_ip_is_call(i) == i

\* let next_ip = self.ip + 1
next_ip(i) == i + 1

\* the arguments in the order they were popped
call_args_not_reversed(data, n) == pop_values_from_stack(data, n)

\* the Call arguments: popped, then reversed
call_args(data, n) == Reverse(pop_values_from_stack(data, n))

\* Instruction::Call(arg_len)
StepCall(n) ==
    IF Len(F.data) < n + 1 THEN Panic
    ELSE LET args == call_args(F.data, n)
             name == ValueToString(F.data[Len(F.data) - n])
             caller == Popped(F, n + 1)
         IN  IF name \notin DOMAIN functions THEN Panic
             ELSE Out("next", functions[name],
                      Append(WithFrame(caller),
                             NewFrame(name, next_ip(ip), args, ip, Len(frames))),
                      heap, NullV)

\* a Return that carries whatever is on top of the stack
return_value_any_top(has, data) == IF data /= <<>> THEN Top(data) ELSE NullV

\* the value a Return carries
return_value(has, data) == IF has THEN Top(data) ELSE NullV

\* a Return that pushes a value for the caller even when it carries none
return_always_pushes(has) ==
    IF has /\ F.data = <<>> THEN Panic
    ELSE IF F.return_position = NoReturn
         THEN Out("return", ip, WithFrame(F), heap, return_value(has, F.data))
         ELSE Out("next", F.return_position,
                  [Front(frames) EXCEPT ![Len(frames) - 1] =
                      Pushed(@, return_value(has, F.data))],
                  heap, NullV)

\* Instruction::Return(has_return_value)
StepReturn(has) ==
    IF has /\ F.data = <<>> THEN Panic
    ELSE LET rv == return_value(has, F.data)
             f == IF has THEN Popped(F, 1) ELSE F
         IN  IF F.return_position = NoReturn
             THEN Out("return", ip, WithFrame(f), heap, rv)
             ELSE LET below == Front(frames)
                      caller == Top(below)
                  IN  Out("next", F.return_position,
                          [below EXCEPT ![Len(below)] =
                              IF has THEN Pushed(caller, rv) ELSE caller],
                          heap, NullV)

\* an object that shares the backing store made last
new_object_address_shared(h, m) == IF h = <<>> THEN 1 ELSE Len(h)

\* Rc::new(RefCell::new(class.clone())): the address of the new backing store
new_object_address(h, m) == Len(h) + 1

\* Instruction::CreateObject
StepCreateObject ==
    IF F.data = <<>> THEN Panic
    ELSE LET class == Top(F.data)
         IN  IF class.t /= "Class" THEN Panic
             ELSE LET a == new_object_address(heap, class.m)
                      h == IF a = Len(heap) + 1
                           THEN Append(heap, MapCell("Object", class.m))
                           ELSE heap
                  IN  Advance(Pushed(Popped(F, 1), ObjectV(a)), h)

\* Instruction::JumpForward(delta)
StepJumpForward(delta) == Out("next", ip + delta, frames, heap, NullV)

\* a usize that wrapped below zero: 2^64 less a jump delta, beyond every instruction
\* index; it stands here as the largest integer the checker holds
WrappedUsize == 2147483647

\* Instruction::JumpBackward(delta): usize subtraction
StepJumpBackward(delta) ==
    IF delta <= ip THEN Out("next", ip - delta, frames, heap, NullV)
    ELSE IF overflow_checks THEN Panic
         ELSE Out("next", WrappedUsize, frames, heap, NullV)

\* a conditional jump that lands one instruction too far
jump_if_false_skips_one(i, delta) == i + delta + 1

\* the target of a JumpIfFalse that jumps; -1 is the overflow panic of `ip -= delta as usize`
jump_if_false_target(i, delta) ==
    IF delta > 0 THEN i + delta
    ELSE IF delta = 0 THEN i
    ELSE IF overflow_checks THEN -1 ELSE i - delta

\* Instruction::JumpIfFalse(delta)
StepJumpIfFalse(delta) ==
    IF F.data = <<>> THEN Panic
    ELSE LET b == Top(F.data)
             f == Popped(F, 1)
         IN  IF b.t = "Bool" /\ b.n = 0
             THEN LET t == jump_if_false_target(ip, delta)
                  IN  IF t < 0 THEN Panic ELSE Out("next", t, WithFrame(f), heap, NullV)
             ELSE Advance(f, heap)

\* Instruction::StackPush(variant): variant.clone() shares the Rc of a collection
StepStackPush(v) == Advance(Pushed(F, v), heap)

\* Frame::move_from_stack_to_variable_slot
StepMoveToLocalVariable(index) ==
    IF F.data = <<>> THEN Panic
    ELSE Advance([Popped(F, 1) EXCEPT
                    !.variables = push_value_to_variable_slot(@, index, Top(F.data)),
                    !.written = @ \cup {index}],
                 heap)

\* Frame::copy_from_stack_to_variable_slot
StepCopyToLocalVariable(index) ==
    IF F.data = <<>> THEN Panic
    ELSE Advance([F EXCEPT
                    !.variables = push_value_to_variable_slot(@, index, Top(F.data)),
                    !.written = @ \cup {index}],
                 heap)

\* Frame::copy_from_variable_slot_to_stack, get_variable_or_panic
StepLoadLocalVariable(index) ==
    IF index >= Len(F.variables) THEN Panic
    ELSE Advance(Pushed(F, F.variables[index + 1]), heap)

\* Instruction::LoadGlobal(index)
StepLoadGlobal(index) ==
    IF index >= Len(globals) THEN Panic
    ELSE Advance(Pushed(F, globals[index + 1]), heap)

\* Instruction::ArrayLength
StepArrayLength ==
    IF F.data = <<>> THEN Panic
    ELSE LET array == Top(F.data)
         IN  IF array.t /= "Array" THEN Panic
             ELSE Advance(Pushed(Popped(F, 1), IntV(Len(heap[array.n].items))), heap)

\* a push onto a copy of the Vec: the shared store keeps its items
array_push_on_copy(h, a, value) == Append(h, [h[a] EXCEPT !.items = Append(@, value)])

\* v.borrow_mut().push(value)
array_push(h, a, value) == [h EXCEPT ![a].items = Append(@, value)]

\* Instruction::ArrayAdd
StepArrayAdd ==
    IF Len(F.data) < 2 THEN Panic
    ELSE LET value == Top(F.data)
             array == F.data[Len(F.data) - 1]
             f == Popped(F, 2)
         IN  IF array.t = "Array"
             THEN Advance(Pushed(f, array), array_push(heap, array.n, value))
             ELSE Advance(f, heap)

\* v.borrow_mut().insert(key, value)
map_insert(h, a, key, value) == [h EXCEPT ![a].map = MapInsert(@, key, value)]

\* Instruction::DictionaryAdd
StepDictionaryAdd ==
    IF Len(F.data) < 3 THEN Panic
    ELSE LET value == Top(F.data)
             key == F.data[Len(F.data) - 1]
             dict == F.data[Len(F.data) - 2]
             f == Popped(F, 3)
         IN  IF dict.t = "Dictionary"
             THEN Advance(Pushed(f, dict),
                          map_insert(heap, dict.n, ValueToString(key), value))
             ELSE Advance(f, heap)

\* the match of GetCollectionItemByKey: [ok, v]
get_item(collection, key, h) ==
    CASE collection.t = "Array" ->
            IF key.t = "Integer" /\ key.n >= 0 /\ key.n < Len(h[collection.n].items)
            THEN Res(h[collection.n].items[key.n + 1], h)
            ELSE NoRes(h)
      [] collection.t = "Dictionary" ->
            IF key.t = "String" /\ key.s \in DOMAIN h[collection.n].map
            THEN Res(h[collection.n].map[key.s], h)
            ELSE NoRes(h)
      [] OTHER -> NoRes(h)

\* Instruction::GetCollectionItemByKey
StepGetCollectionItemByKey ==
    IF Len(F.data) < 2 THEN Panic
    ELSE LET key == Top(F.data)
             collection == F.data[Len(F.data) - 1]
             r == get_item(collection, key, heap)
         IN  IF r.ok THEN Advance(Pushed(Popped(F, 2), r.v), heap) ELSE Panic

\* the match of SetCollectionItemByKey: [ok, v, heap]
set_item(collection, key, value, h) ==
    CASE collection.t = "Array" ->
            IF key.t = "Integer" /\ key.n >= 0 /\ key.n < Len(h[collection.n].items)
            THEN Res(collection, [h EXCEPT ![collection.n].items[key.n + 1] = value])
            ELSE NoRes(h)
      [] collection.t = "Dictionary" ->
            IF key.t = "String"
            THEN Res(collection, map_insert(h, collection.n, key.s, value))
            ELSE NoRes(h)
      [] OTHER -> NoRes(h)

\* Instruction::SetCollectionItemByKey
StepSetCollectionItemByKey ==
    IF Len(F.data) < 3 THEN Panic
    ELSE LET key == Top(F.data)
             value == F.data[Len(F.data) - 1]
             collection == F.data[Len(F.data) - 2]
             r == set_item(collection, key, value, heap)
         IN  IF r.ok THEN Advance(Pushed(Popped(F, 3), r.v), r.heap) ELSE Panic

\* Add, Sub, Multiply, Divide, Equal, NotEqual and the four orderings:
\* pop_2_values_from_stack, then push the result
binary_result(op, lhs, rhs, h) ==
    CASE op = "Add" -> ValueAdd(lhs, rhs, h)
      [] op = "Sub" -> ValueSub(lhs, rhs, h)
      [] op = "Multiply" -> ValueMul(lhs, rhs, h)
      [] op = "Divide" -> ValueDiv(lhs, rhs, h)
      [] op = "Equal" -> Res(BoolV(ValueEq(lhs, rhs, h)), h)
      [] op = "NotEqual" -> Res(BoolV(~ValueEq(lhs, rhs, h)), h)
      [] OTHER -> Compare(op, lhs, rhs, h)

StepBinary(op) ==
    IF Len(F.data) < 2 THEN Panic
    ELSE LET rhs == Top(F.data)
             lhs == F.data[Len(F.data) - 1]
             r == binary_result(op, lhs, rhs, heap)
         IN  IF r.ok THEN Advance(Pushed(Popped(F, 2), r.v), r.heap) ELSE Panic

\* Instruction::Pow: "todo: implement"
StepPow == Advance(F, heap)

\* Instruction::Halt
StepHalt == Out("halt", ip, frames, heap, NullV)

KnownOps ==
    {"Assert", "Print", "Call", "Return", "CreateObject", "JumpForward",
     "JumpBackward", "JumpIfFalse", "StackPush", "MoveToLocalVariable",
     "CopyToLocalVariable", "LoadLocalVariable", "LoadGlobal", "ArrayLength",
     "ArrayAdd", "DictionaryAdd", "GetCollectionItemByKey",
     "SetCollectionItemByKey", "Add", "Sub", "Multiply", "Divide", "Pow", "Equal",
     "NotEqual", "LessThan", "LessThanOrEqual", "GreaterThan",
     "GreaterThanOrEqual", "Halt"}

\* The end of one loop iteration: a panic, the root frame's return, the break on
\* Halt or on ip == instructions.len() followed by Ok(frame.pop_value_from_stack()),
\* or the next iteration.
Commit(op, o) ==
    /\ last' = [op |-> op, ip |-> ip, k |-> o.k, frames |-> frames, heap |-> heap]
    /\ UNCHANGED <<progId, instructions, functions, globals, overflow_checks, entry>>
    /\ CASE o.k = "panic" ->
              /\ status' = "failed"
              /\ UNCHANGED <<ip, frames, heap, result>>
         [] o.k = "return" ->
              /\ status' = "done"
              /\ result' = o.result
              /\ frames' = o.frames
              /\ heap' = o.heap
              /\ ip' = ip
         [] OTHER ->
              LET stop == o.k = "halt" \/ o.ip = Len(instructions)
                  top == o.frames[Len(o.frames)]
              IN  /\ ip' = o.ip
                  /\ heap' = o.heap
                  /\ IF ~stop
                     THEN status' = "running" /\ frames' = o.frames /\ UNCHANGED result
                     ELSE IF top.data = <<>>
                     THEN status' = "failed" /\ frames' = o.frames /\ UNCHANGED result
                     ELSE /\ status' = "done"
                          /\ result' = Top(top.data)
                          /\ frames' = [o.frames EXCEPT ![Len(o.frames)] = Popped(top, 1)]

Fetch(op) == status = "running" /\ ip < Len(instructions) /\ Cur.op = op

DoAssert == Fetch("Assert") /\ Commit("Assert", StepAssert)
DoPrint == Fetch("Print") /\ Commit("Print", StepPrint)
DoCall == Fetch("Call") /\ Len(frames) < MaxFrames /\ Commit("Call", StepCall(Cur.n))
DoReturn == Fetch("Return") /\ Commit("Return", StepReturn(Cur.n = 1))
DoCreateObject == Fetch("CreateObject") /\ Commit("CreateObject", StepCreateObject)
DoJumpForward == Fetch("JumpForward") /\ Commit("JumpForward", StepJumpForward(Cur.n))
DoJumpBackward == Fetch("JumpBackward") /\ Commit("JumpBackward", StepJumpBackward(Cur.n))
DoJumpIfFalse == Fetch("JumpIfFalse") /\ Commit("JumpIfFalse", StepJumpIfFalse(Cur.n))
DoStackPush == Fetch("StackPush") /\ Commit("StackPush", StepStackPush(Cur.v))
DoMoveToLocalVariable ==
    Fetch("MoveToLocalVariable")
    /\ Commit("MoveToLocalVariable", StepMoveToLocalVariable(Cur.n))
DoCopyToLocalVariable ==
    Fetch("CopyToLocalVariable")
    /\ Commit("CopyToLocalVariable", StepCopyToLocalVariable(Cur.n))
DoLoadLocalVariable ==
    Fetch("LoadLocalVariable")
    /\ Commit("LoadLocalVariable", StepLoadLocalVariable(Cur.n))
DoLoadGlobal == Fetch("LoadGlobal") /\ Commit("LoadGlobal", StepLoadGlobal(Cur.n))
DoArrayLength == Fetch("ArrayLength") /\ Commit("ArrayLength", StepArrayLength)
DoArrayAdd == Fetch("ArrayAdd") /\ Commit("ArrayAdd", StepArrayAdd)
DoDictionaryAdd == Fetch("DictionaryAdd") /\ Commit("DictionaryAdd", StepDictionaryAdd)
DoGetCollectionItemByKey ==
    Fetch("GetCollectionItemByKey")
    /\ Commit("GetCollectionItemByKey", StepGetCollectionItemByKey)
DoSetCollectionItemByKey ==
    Fetch("SetCollectionItemByKey")
    /\ Commit("SetCollectionItemByKey", StepSetCollectionItemByKey)
DoAdd == Fetch("Add") /\ Commit("Add", StepBinary("Add"))
DoSub == Fetch("Sub") /\ Commit("Sub", StepBinary("Sub"))
DoMultiply == Fetch("Multiply") /\ Commit("Multiply", StepBinary("Multiply"))
DoDivide == Fetch("Divide") /\ Commit("Divide", StepBinary("Divide"))
DoPow == Fetch("Pow") /\ Commit("Pow", StepPow)
DoEqual == Fetch("Equal") /\ Commit("Equal", StepBinary("Equal"))
DoNotEqual == Fetch("NotEqual") /\ Commit("NotEqual", StepBinary("NotEqual"))
DoLessThan == Fetch("LessThan") /\ Commit("LessThan", StepBinary("LessThan"))
DoLessThanOrEqual ==
    Fetch("LessThanOrEqual") /\ Commit("LessThanOrEqual", StepBinary("LessThanOrEqual"))
DoGreaterThan == Fetch("GreaterThan") /\ Commit("GreaterThan", StepBinary("GreaterThan"))
DoGreaterThanOrEqual ==
    Fetch("GreaterThanOrEqual")
    /\ Commit("GreaterThanOrEqual", StepBinary("GreaterThanOrEqual"))
DoHalt == Fetch("Halt") /\ Commit("Halt", StepHalt)

\* `_ => unreachable!("unknown instruction ..")`: StackPop, StoreGlobal, ...
DoUnknownInstruction ==
    /\ status = "running"
    /\ ip < Len(instructions)
    /\ Cur.op \notin KnownOps
    /\ Commit(Cur.op, Panic)

\* self.instructions.get(self.ip).expect("instruction #.. should exist")
DoFetchOutOfRange ==
    /\ status = "running"
    /\ ip >= Len(instructions)
    /\ Commit("fetch", Panic)

(***************************************************************************)
(* Tokens (compiler/token.rs): the syntax trees the compiler takes.        *)
(***************************************************************************)
TIdentifier(s) == [t |-> "Identifier", s |-> s]
TNull == [t |-> "Null", s |-> ""]
TInteger(n) == [t |-> "Integer", s |-> "", n |-> n]
TFloat(v) == [t |-> "Float", s |-> "", v |-> v]
TBool(b) == [t |-> "Bool", s |-> "", b |-> b]
TString(s) == [t |-> "String", s |-> s]
TArray(elements) == [t |-> "Array", s |-> "", items |-> elements]
TKeyValuePair(k, value) == [t |-> "KeyValuePair", s |-> "", k |-> k, a |-> value]
TDictionary(pairs) == [t |-> "Dictionary", s |-> "", items |-> pairs]
TObject(class_name, params) ==
    [t |-> "Object", s |-> "", a |-> TIdentifier(class_name), items |-> params]
TArrayIndex(id, index) == [t |-> "ArrayIndex", s |-> "", a |-> TIdentifier(id), b |-> index]
TCall(name, args) == [t |-> "Call", s |-> "", a |-> TIdentifier(name), items |-> args]
TAnonFunction(params, statements) ==
    [t |-> "AnonFunction", s |-> "", params |-> params, items |-> statements]
TBinary(op, a, b) == [t |-> op, s |-> "", a |-> a, b |-> b]
TChain(start, chain) == [t |-> "Chain", s |-> "", a |-> start, items |-> chain]
TAssert(e) == [t |-> "Assert", s |-> "", a |-> e]
TPrint(e) == [t |-> "Print", s |-> "", a |-> e]
TVariable(name, value) == [t |-> "Variable", s |-> "", a |-> TIdentifier(name), b |-> value]
TAssign(left, right) == [t |-> "Assign", s |-> "", a |-> left, b |-> right]
TIfElse(e, then_body, has_else, else_body) ==
    [t |-> "IfElse", s |-> "", a |-> e, items |-> then_body, has_else |-> has_else,
     else_body |-> else_body]
TWhileLoop(e, statements) == [t |-> "WhileLoop", s |-> "", a |-> e, items |-> statements]
TForI(start, end, step, statements) ==
    [t |-> "ForI", s |-> "", a |-> start, b |-> end, c |-> step, items |-> statements]
TForEach(item, array, statements) ==
    [t |-> "ForEach", s |-> "", a |-> TIdentifier(item), b |-> array, items |-> statements]
TReturn(e) == [t |-> "Return", s |-> "", a |-> e]
TComment == [t |-> "Comment", s |-> ""]
TFunction(name, params, statements) ==
    [t |-> "Function", s |-> name, params |-> params, items |-> statements]
TClass(name, class_items) == [t |-> "Class", s |-> "", name |-> name, items |-> class_items]

\* impl ToString for Token
TokenToString(tok) ==
    IF tok.t \in {"Function", "Identifier", "String"} THEN tok.s ELSE ""

BinaryInstruction(t) ==
    CASE t = "Eq" -> "Equal" [] t = "Ne" -> "NotEqual" [] t = "Add" -> "Add"
      [] t = "Sub" -> "Sub" [] t = "Mul" -> "Multiply" [] t = "Div" -> "Divide"
      [] t = "Pow" -> "Pow" [] t = "Lt" -> "LessThan" [] t = "Le" -> "LessThanOrEqual"
      [] t = "Gt" -> "GreaterThan" [] OTHER -> "GreaterThanOrEqual"

BinaryTokens == {"Eq", "Ne", "Add", "Sub", "Mul", "Div", "Pow", "Lt", "Le", "Gt", "Ge"}

(***************************************************************************)
(* Function (compiler/function.rs).  The state of one function being       *)
(* compiled: its instructions, its variables in the order they were added  *)
(* (a variable's index is the number of variables added before it), the    *)
(* heap that holds the Rc of every collection literal, and err, set by a   *)
(* panic of the compiler.                                                  *)
(***************************************************************************)
CLASS_SELF_VARIABLE_NAME == "this"
CLASS_CONSTRUCTOR_FUNCTION_NAME == "constructor"

Emit(st, ins) == [st EXCEPT !.instructions = Append(@, ins)]
CompileError(st) == [st EXCEPT !.err = TRUE]

HasVariable(st, name) == \E i \in 1..Len(st.variables) : st.variables[i] = name

\* Function::get_variable(name).index; -1 where get_variable panics
get_variable(st, name) ==
    IF HasVariable(st, name)
    THEN (CHOOSE i \in 1..Len(st.variables) : st.variables[i] = name) - 1
    ELSE -1

\* Function::add_variable
add_variable(st, name) ==
    IF HasVariable(st, name) THEN CompileError(st)
    ELSE [st EXCEPT !.variables = Append(@, name)]

\* an instruction on the slot of a variable that must exist
EmitOnVariable(st, op, name) ==
    IF HasVariable(st, name) THEN Emit(st, InsN(op, get_variable(st, name)))
    ELSE CompileError(st)

\* Value::Array(..) / Value::Dictionary(..) of a literal: a new Rc
EmitNewCollection(st, kind) ==
    LET a == Len(st.heap) + 1
    IN  [st EXCEPT
           !.heap = Append(@, IF kind = "Array" THEN ArrayCell(<<>>)
                              ELSE MapCell("Dictionary", EmptyMap)),
           !.instructions = Append(@, StackPush(MkVal(kind, a, "")))]

\* History of the compilation: where an if, a loop or a `new` put its parts.  start
\* is the first instruction of the statement (of a for loop: of its init statement,
\* of a `new`: its LoadGlobal; end is then the index after its last instruction), cond
\* the first instruction of the condition, head the conditional jump, body_end the
\* index after the last instruction of the then body or loop body and step (where
\* the JumpForward or JumpBackward sits), end the index after the whole statement.
Mark(kind, start, cond, head, body_end, end) ==
    [kind |-> kind, start |-> start, cond |-> cond, head |-> head,
     body_end |-> body_end, end |-> end]
AddMark(st, mark) == [st EXCEPT !.marks = Append(@, mark)]
\* the marks of a function whose first instruction has index base in the program
ShiftMarks(marks, base) ==
    [i \in 1..Len(marks) |->
        Mark(marks[i].kind, marks[i].start + base, marks[i].cond + base,
             marks[i].head + base, marks[i].body_end + base, marks[i].end + base)]
\* the mark of the `new` expression that st ends with
NewMark(st, start) ==
    AddMark(st, Mark("new", start, start, start, Len(st.instructions) - 1,
                     Len(st.instructions)))
\* the mark of the call expression that st ends with: body_end is its Call
CallMark(st, start) ==
    AddMark(st, Mark("call", start, start, start, Len(st.instructions) - 1,
                     Len(st.instructions)))

\* the mark of the method call that st ends with: start pushes the method's name,
\* body_end is the Call
MethodMark(st, start) ==
    AddMark(st, Mark("method", start, start, start, Len(st.instructions) - 1,
                     Len(st.instructions)))

\* Self(method, st, token) is the call self.method(token) of a method of Function
\* on the function st being compiled
RECURSIVE Self(_, _, _), compile_expressions(_, _), compile_statements(_, _),
          compile_array_elements(_, _), compile_dictionary_pairs(_, _),
          compile_chain_items(_, _, _)

\* Function::compile_call
compile_call(st, name, args) ==
    LET fname == TokenToString(name)
        local == HasVariable(st, fname)
        s1 == IF local
              THEN Emit(st, InsN("LoadLocalVariable", get_variable(st, fname)))
              ELSE Emit(Emit(Emit(Emit(st,
                        InsN("LoadLocalVariable", 0)),
                        StackPush(StrV(fname))),
                        I0("GetCollectionItemByKey")),
                        InsN("LoadLocalVariable", 0))
        arg_len == IF local THEN Len(args) ELSE Len(args) + 1
    IN  Emit(Self("compile_expressions", s1, args), InsN("Call", arg_len))

\* Function::compile_new_object
compile_new_object(st, class_name, params) ==
    IF class_name \notin DOMAIN st.global_lookup THEN CompileError(st)
    ELSE LET s1 == Emit(Emit(st, InsN("LoadGlobal", st.global_lookup[class_name])),
                        I0("CreateObject"))
             tmp_name == "tmp" \o NatToString(Len(s1.instructions))
             s2 == add_variable(s1, tmp_name)
             obj_var == get_variable(s2, tmp_name)
             s3 == Emit(Emit(Emit(Emit(s2,
                       InsN("CopyToLocalVariable", obj_var)),
                       StackPush(StrV(CLASS_CONSTRUCTOR_FUNCTION_NAME))),
                       I0("GetCollectionItemByKey")),
                       InsN("LoadLocalVariable", obj_var))
             s4 == Self("compile_expressions", s3, params)
             s5 == Emit(Emit(s4, InsN("Call", Len(params) + 1)),
                        InsN("LoadLocalVariable", obj_var))
         IN  NewMark(s5, Len(st.instructions))

\* Function::compile_chain
compile_chain(st, start, chain) ==
    compile_chain_items(Self("compile_expression", st, start), start, chain)

compile_chain_items(st, start, chain) ==
    IF chain = <<>> THEN st
    ELSE LET item == Head(chain)
             s1 == Emit(Emit(st, StackPush(StrV(TokenToString(
                         IF item.t = "Call" THEN item.a ELSE item)))),
                        I0("GetCollectionItemByKey"))
             s2 == CASE item.t = "Identifier" -> s1
                     [] item.t = "Call" ->
                          MethodMark(
                              Emit(Self("compile_expressions",
                                        EmitOnVariable(s1, "LoadLocalVariable",
                                                       TokenToString(start)),
                                        item.items),
                                   InsN("Call", Len(item.items) + 1)),
                              Len(st.instructions))
                     [] OTHER -> CompileError(st)
         IN  compile_chain_items(s2, start, Tail(chain))

\* Function::compile_expression
compile_expression(st, token) ==
    CASE token.t = "AnonFunction" ->
            LET func_name == "func" \o NatToString(Len(st.instructions))
            IN  Emit([st EXCEPT !.anonymous_functions =
                          Append(@, TFunction(func_name, token.params, token.items))],
                     StackPush(FRefV(func_name)))
      [] token.t = "Null" -> Emit(st, StackPush(NullV))
      [] token.t = "Integer" -> Emit(st, StackPush(IntV(token.n)))
      [] token.t = "Float" -> Emit(st, StackPush(token.v))
      [] token.t = "Bool" -> Emit(st, StackPush(BoolV(token.b)))
      [] token.t = "String" -> Emit(st, StackPush(StrV(token.s)))
      [] token.t = "Identifier" -> EmitOnVariable(st, "LoadLocalVariable", token.s)
      [] token.t = "Array" ->
            compile_array_elements(EmitNewCollection(st, "Array"), token.items)
      [] token.t = "Dictionary" ->
            compile_dictionary_pairs(EmitNewCollection(st, "Dictionary"), token.items)
      [] token.t = "Object" ->
            compile_new_object(st, TokenToString(token.a), token.items)
      [] token.t = "ArrayIndex" ->
            Emit(Self("compile_expression",
                     EmitOnVariable(st, "LoadLocalVariable", TokenToString(token.a)),
                     token.b),
                 I0("GetCollectionItemByKey"))
      [] token.t = "Call" ->
            CallMark(compile_call(st, token.a, token.items), Len(st.instructions))
      [] token.t \in BinaryTokens ->
            Emit(Self("compile_expression",
                      Self("compile_expression", st, token.a), token.b),
                 I0(BinaryInstruction(token.t)))
      [] token.t = "Chain" -> compile_chain(st, token.a, token.items)
      [] OTHER -> CompileError(st)

\* `for arg in args { self.compile_expression(arg); }`
compile_expressions(st, tokens) ==
    IF tokens = <<>> THEN st
    ELSE compile_expressions(Self("compile_expression", st, Head(tokens)),
                             Tail(tokens))

compile_array_elements(st, elements) ==
    IF elements = <<>> THEN st
    ELSE compile_array_elements(
             Emit(Self("compile_expression", st, Head(elements)), I0("ArrayAdd")),
             Tail(elements))

compile_dictionary_pairs(st, pairs) ==
    IF pairs = <<>> THEN st
    ELSE compile_dictionary_pairs(
             IF Head(pairs).t = "KeyValuePair"
             THEN Emit(Self("compile_expression",
                            Emit(st, StackPush(StrV(Head(pairs).k))),
                                          Head(pairs).a),
                       I0("DictionaryAdd"))
             ELSE st,
             Tail(pairs))

\* Function::compile_variable
compile_variable(st, name, value) ==
    LET s1 == add_variable(st, TokenToString(name))
        slot == get_variable(s1, TokenToString(name))
    IN  Emit(Self("compile_expression", s1, value), InsN("MoveToLocalVariable", slot))

\* Function::compile_assignment
compile_assignment(st, left, right) ==
    CASE left.t = "Identifier" ->
            IF ~HasVariable(st, left.s) THEN CompileError(st)
            ELSE Emit(Self("compile_expression", st, right),
                      InsN("MoveToLocalVariable", get_variable(st, left.s)))
      [] left.t = "ArrayIndex" ->
            IF ~HasVariable(st, TokenToString(left.a)) THEN CompileError(st)
            ELSE LET slot == get_variable(st, TokenToString(left.a))
                     s1 == Emit(st, InsN("LoadLocalVariable", slot))
                     s2 == Self("compile_expression",
                                Self("compile_expression", s1, right), left.b)
                 IN  Emit(Emit(s2, I0("SetCollectionItemByKey")),
                          InsN("MoveToLocalVariable", slot))
      [] OTHER -> CompileError(st)

Placeholder == I0("Halt")
Patch(st, at, ins) == [st EXCEPT !.instructions[at + 1] = ins]

\* a loop whose backward jump lands one instruction after the start of the condition
close_loop_back_too_short(st, start_of_loop, jump_not_true) ==
    LET s1 == Emit(st, InsN("JumpBackward", Len(st.instructions) - start_of_loop - 1))
    IN  Patch(s1, jump_not_true,
              InsN("JumpIfFalse", Len(s1.instructions) - jump_not_true))

\* the tail of compile_forloop and compile_whileloop: JumpBackward, then the patch
close_loop(st, start_of_loop, jump_not_true) ==
    LET s1 == Emit(st, InsN("JumpBackward", Len(st.instructions) - start_of_loop))
    IN  Patch(s1, jump_not_true,
              InsN("JumpIfFalse", Len(s1.instructions) - jump_not_true))

\* the mark of the loop that close_loop just closed in st
LoopMark(st, kind, start, start_of_loop, jump_not_true) ==
    AddMark(st, Mark(kind, start, start_of_loop, jump_not_true,
                     Len(st.instructions) - 1, Len(st.instructions)))

\* Function::compile_forloop
compile_forloop(st, start, end, step, block) ==
    LET s1 == Self("compile_statement", st, start)
        start_of_loop == Len(s1.instructions)
        s2 == Self("compile_expression", s1, end)
        jump_not_true == Len(s2.instructions)
        s3 == Emit(s2, Placeholder)
        s4 == Self("compile_statement",
                   Self("compile_statements", s3, block), step)
    IN  LoopMark(close_loop(s4, start_of_loop, jump_not_true), "for",
                 Len(st.instructions), start_of_loop, jump_not_true)

\* Function::compile_whileloop
compile_whileloop(st, expr, block) ==
    LET start_ins_ptr == Len(st.instructions)
        s2 == Self("compile_expression", st, expr)
        jump_not_true == Len(s2.instructions)
        s3 == Emit(s2, Placeholder)
        s4 == Self("compile_statements", s3, block)
    IN  LoopMark(close_loop(s4, start_ins_ptr, jump_not_true), "while",
                 start_ins_ptr, start_ins_ptr, jump_not_true)

\* Function::compile_ifelse
compile_ifelse(st, expr, then_body, has_else, else_body) ==
    LET s1 == Self("compile_expression", st, expr)
        jump_to_else == Len(s1.instructions)
        s2 == Self("compile_statements", Emit(s1, Placeholder), then_body)
        jump_to_end == Len(s2.instructions)
        s3 == Emit(s2, Placeholder)
        s4 == Patch(s3, jump_to_else,
                    InsN("JumpIfFalse", Len(s3.instructions) - jump_to_else))
        s5 == IF has_else THEN Self("compile_statements", s4, else_body) ELSE s4
    IN  AddMark(Patch(s5, jump_to_end,
                      InsN("JumpForward", Len(s5.instructions) - jump_to_end)),
                Mark("if", Len(st.instructions), Len(st.instructions), jump_to_else,
                     jump_to_end, Len(s5.instructions)))

\* Function::compile_statement
compile_statement(st, statement) ==
    CASE statement.t = "Assert" ->
            Emit(Self("compile_expression", st, statement.a), I0("Assert"))
      [] statement.t = "Print" ->
            Emit(Self("compile_expression", st, statement.a), I0("Print"))
      [] statement.t = "Call" -> compile_call(st, statement.a, statement.items)
      [] statement.t = "Variable" -> compile_variable(st, statement.a, statement.b)
      [] statement.t = "Assign" -> compile_assignment(st, statement.a, statement.b)
      [] statement.t = "IfElse" ->
            compile_ifelse(st, statement.a, statement.items, statement.has_else,
                           statement.else_body)
      [] statement.t = "WhileLoop" -> compile_whileloop(st, statement.a, statement.items)
      [] statement.t = "ForEach" -> st
      [] statement.t = "Return" ->
            Emit(Self("compile_expression", st, statement.a), Return(TRUE))
      [] statement.t = "ForI" ->
            compile_forloop(st, statement.a, statement.b, statement.c, statement.items)
      [] statement.t = "Chain" -> compile_chain(st, statement.a, statement.items)
      [] statement.t = "Comment" -> st
      [] OTHER -> CompileError(st)

\* Function::compile_statements
compile_statements(st, statements) ==
    IF statements = <<>> THEN st
    ELSE compile_statements(Self("compile_statement", st, Head(statements)),
                            Tail(statements))

Self(method, st, token) ==
    CASE method = "compile_expression" -> compile_expression(st, token)
      [] method = "compile_expressions" -> compile_expressions(st, token)
      [] method = "compile_statement" -> compile_statement(st, token)
      [] method = "compile_statements" -> compile_statements(st, token)

\* Function::add_parameters
RECURSIVE add_parameters(_, _)
add_parameters(st, parameters) ==
    IF parameters = <<>> THEN st
    ELSE add_parameters(add_variable(st, TokenToString(Head(parameters))),
                        Tail(parameters))

\* Function::new
NewFunction(h, global_lookup) ==
    [instructions |-> <<>>, variables |-> <<>>, heap |-> h, err |-> FALSE,
     anonymous_functions |-> <<>>, global_lookup |-> global_lookup, marks |-> <<>>]

\* Function::compile: the state after the function is compiled
compile_function(func, h, global_lookup) ==
    LET st == NewFunction(h, global_lookup)
    IN  IF func.statements = <<>> THEN Emit(st, Return(FALSE))
        ELSE LET s1 == add_parameters(st, <<TIdentifier(CLASS_SELF_VARIABLE_NAME)>>
                                          \o func.parameters)
                 s2 == Self("compile_statements", s1, func.statements)
             IN  IF s2.instructions /= <<>> /\ Top(s2.instructions).op = "Return"
                 THEN s2
                 ELSE Emit(s2, Return(FALSE))

(***************************************************************************)
(* Compiler (compiler/compiler.rs).                                        *)
(***************************************************************************)
\* Function::get_full_name
get_full_name(class_name, name) == class_name \o "." \o name

\* the class template: a FunctionRef per method, Null per field
RECURSIVE class_object(_, _, _)
class_object(class_name, class_items, object) ==
    IF class_items = <<>> THEN object
    ELSE LET item == Head(class_items)
         IN  class_object(class_name, Tail(class_items),
                 CASE item.t = "Function" ->
                        MapInsert(object, item.s, FRefV(get_full_name(class_name, item.s)))
                   [] item.t = "Variable" ->
                        MapInsert(object, TokenToString(item.a), NullV)
                   [] OTHER -> object)

FunctionOf(class_name, name, parameters, statements) ==
    [class_name |-> class_name, name |-> name, parameters |-> parameters,
     statements |-> statements]

RECURSIVE class_functions(_, _)
class_functions(class_name, class_items) ==
    IF class_items = <<>> THEN <<>>
    ELSE LET item == Head(class_items)
         IN  (IF item.t = "Function"
              THEN <<FunctionOf(class_name, item.s, item.params, item.items)>>
              ELSE <<>>) \o class_functions(class_name, Tail(class_items))

RECURSIVE class_fields(_)
class_fields(class_items) ==
    IF class_items = <<>> THEN <<>>
    ELSE (IF Head(class_items).t = "Variable" THEN <<Head(class_items)>> ELSE <<>>)
         \o class_fields(Tail(class_items))

\* Program::insert_global: the index of the new global
insert_global(program_globals) == Len(program_globals)

\* "Declaring top level items": d is [globals, global_lookup, functions]
RECURSIVE declare(_, _)
declare(script, d) ==
    IF script = <<>> THEN d
    ELSE LET token == Head(script)
         IN  IF token.t /= "Class" THEN declare(Tail(script), d)
             ELSE LET object == class_object(token.name, token.items, EmptyMap)
                      own == class_functions(token.name, token.items)
                      has_constructor == CLASS_CONSTRUCTOR_FUNCTION_NAME \in DOMAIN object
                      all == IF has_constructor THEN own
                             ELSE Append(own,
                                      FunctionOf(token.name, CLASS_CONSTRUCTOR_FUNCTION_NAME,
                                                 <<>>, class_fields(token.items)))
                      full == IF has_constructor THEN object
                              ELSE MapInsert(object, CLASS_CONSTRUCTOR_FUNCTION_NAME,
                                       FRefV(get_full_name(token.name,
                                                 CLASS_CONSTRUCTOR_FUNCTION_NAME)))
                  IN  declare(Tail(script),
                          [globals |-> Append(d.globals, ClassV(full)),
                           global_lookup |->
                               MapInsert(d.global_lookup, token.name,
                                         insert_global(d.globals)),
                           functions |-> d.functions \o all])

\* "Compiling functions": p is the program so far
RECURSIVE compile_functions(_, _, _)
compile_functions(funcs, global_lookup, p) ==
    IF funcs = <<>> THEN p
    ELSE LET func == Head(funcs)
             st == compile_function(func, p.heap, global_lookup)
         IN  compile_functions(Tail(funcs), global_lookup,
                 [p EXCEPT
                    !.symbols = MapInsert(@, get_full_name(func.class_name, func.name),
                                          Len(p.instructions)),
                    !.instructions = @ \o st.instructions,
                    !.marks = @ \o ShiftMarks(st.marks, Len(p.instructions)),
                    !.heap = st.heap,
                    !.err = @ \/ st.err])

\* Compiler::compile
compile(script) ==
    LET d == declare(script, [globals |-> <<>>, global_lookup |-> EmptyMap,
                              functions |-> <<>>])
    IN  compile_functions(d.functions, d.global_lookup,
            [instructions |-> <<>>, symbols |-> EmptyMap, globals |-> d.globals,
             heap |-> <<>>, err |-> FALSE, marks |-> <<>>])

(***************************************************************************)
(* Workloads: TinyScript sources, compiled, and hand-assembled Programs    *)
(* handed to VM::new.  Each has the exec calls made on it.                 *)
(***************************************************************************)
Run(e, parameters) == [entry |-> e, parameters |-> parameters]

\* class T { function main() { var a = 2; var b = 3; assert a + b == 5; print a;
\*                             return a * b - 1; }
\*           function idle() { } }
SrcArith ==
    <<TClass("T", <<
        TFunction("main", <<>>, <<
            TVariable("a", TInteger(2)),
            TVariable("b", TInteger(3)),
            TAssert(TBinary("Eq", TBinary("Add", TIdentifier("a"), TIdentifier("b")),
                            TInteger(5))),
            TPrint(TIdentifier("a")),
            TReturn(TBinary("Sub", TBinary("Mul", TIdentifier("a"), TIdentifier("b")),
                            TInteger(1)))>>),
        TFunction("idle", <<>>, <<>>)>>)>>

\* class T { function main() { var i = 0; var a = null;
\*                             while (i < LoopCount) { a = [1]; i = i + 1; }
\*                             return a; } }
SrcLoopLiteral ==
    <<TClass("T", <<
        TFunction("main", <<>>, <<
            TVariable("i", TInteger(0)),
            TVariable("a", TNull),
            TWhileLoop(TBinary("Lt", TIdentifier("i"), TInteger(LoopCount)), <<
                TAssign(TIdentifier("a"), TArray(<<TInteger(1)>>)),
                TAssign(TIdentifier("i"),
                        TBinary("Add", TIdentifier("i"), TInteger(1)))>>),
            TReturn(TIdentifier("a"))>>)>>)>>

\* class T { function main() { var a = [1, 2]; var b = a; b[0] = 5; assert a[0] == 5;
\*                             var d = {"k": 1}; d["j"] = 2; return d["j"]; } }
SrcAlias ==
    <<TClass("T", <<
        TFunction("main", <<>>, <<
            TVariable("a", TArray(<<TInteger(1), TInteger(2)>>)),
            TVariable("b", TIdentifier("a")),
            TAssign(TArrayIndex("b", TInteger(0)), TInteger(5)),
            TAssert(TBinary("Eq", TArrayIndex("a", TInteger(0)), TInteger(5))),
            TVariable("d", TDictionary(<<TKeyValuePair("k", TInteger(1))>>)),
            TAssign(TArrayIndex("d", TString("j")), TInteger(2)),
            TReturn(TArrayIndex("d", TString("j")))>>)>>)>>

\* class T { function main() { var d = {"k": 1}; d.k; } }
SrcChainStatement ==
    <<TClass("T", <<
        TFunction("main", <<>>, <<
            TVariable("d", TDictionary(<<TKeyValuePair("k", TInteger(1))>>)),
            TChain(TIdentifier("d"), <<TIdentifier("k")>>)>>)>>)>>

\* class T { function main() { var x = 1; if x == 1 { x = 2; } else { x = 3; }
\*                             if x == 5 { x = 7; } return x; } }
SrcIfElse ==
    <<TClass("T", <<
        TFunction("main", <<>>, <<
            TVariable("x", TInteger(1)),
            TIfElse(TBinary("Eq", TIdentifier("x"), TInteger(1)),
                    <<TAssign(TIdentifier("x"), TInteger(2))>>, TRUE,
                    <<TAssign(TIdentifier("x"), TInteger(3))>>),
            TIfElse(TBinary("Eq", TIdentifier("x"), TInteger(5)),
                    <<TAssign(TIdentifier("x"), TInteger(7))>>, FALSE, <<>>),
            TReturn(TIdentifier("x"))>>)>>)>>

\* class T { function main(a, b) { var r = 0;
\*     if a { if b { r = 1; } else { r = 2; } } else { if b { } else { r = 4; } }
\*     return r; } }
SrcIfNested ==
    <<TClass("T", <<
        TFunction("main", <<TIdentifier("a"), TIdentifier("b")>>, <<
            TVariable("r", TInteger(0)),
            TIfElse(TIdentifier("a"),
                    <<TIfElse(TIdentifier("b"),
                              <<TAssign(TIdentifier("r"), TInteger(1))>>, TRUE,
                              <<TAssign(TIdentifier("r"), TInteger(2))>>)>>, TRUE,
                    <<TIfElse(TIdentifier("b"), <<>>, TRUE,
                              <<TAssign(TIdentifier("r"), TInteger(4))>>)>>),
            TReturn(TIdentifier("r"))>>)>>)>>

\* class T { function main(a, b) { var r = 0;
\*     if b { }
\*     if a { r = r + 10; } else { }
\*     return r; } }
SrcIfEmpty ==
    <<TClass("T", <<
        TFunction("main", <<TIdentifier("a"), TIdentifier("b")>>, <<
            TVariable("r", TInteger(0)),
            TIfElse(TIdentifier("b"), <<>>, FALSE, <<>>),
            TIfElse(TIdentifier("a"),
                    <<TAssign(TIdentifier("r"),
                              TBinary("Add", TIdentifier("r"), TInteger(10)))>>, TRUE,
                    <<>>),
            TReturn(TIdentifier("r"))>>)>>)>>

\* class T { function main(n) { var s = 0;
\*     for (var i = 0; i < n; i = i + 1) {
\*         var j = 0; while (j < i) { s = s + 1; j = j + 1; } }
\*     return s; } }
SrcLoops ==
    <<TClass("T", <<
        TFunction("main", <<TIdentifier("n")>>, <<
            TVariable("s", TInteger(0)),
            TForI(TVariable("i", TInteger(0)),
                  TBinary("Lt", TIdentifier("i"), TIdentifier("n")),
                  TAssign(TIdentifier("i"), TBinary("Add", TIdentifier("i"), TInteger(1))),
                  <<TVariable("j", TInteger(0)),
                    TWhileLoop(TBinary("Lt", TIdentifier("j"), TIdentifier("i")), <<
                        TAssign(TIdentifier("s"),
                                TBinary("Add", TIdentifier("s"), TInteger(1))),
                        TAssign(TIdentifier("j"),
                                TBinary("Add", TIdentifier("j"), TInteger(1)))>>)>>),
            TReturn(TIdentifier("s"))>>)>>)>>

\* class T { function main(f) { for (var i = 0; i < LoopCount; i = i + 1) { f(); } }
\*           function g() { return 1; } }
SrcCallLocal ==
    <<TClass("T", <<
        TFunction("main", <<TIdentifier("f")>>, <<
            TForI(TVariable("i", TInteger(0)),
                  TBinary("Lt", TIdentifier("i"), TInteger(LoopCount)),
                  TAssign(TIdentifier("i"), TBinary("Add", TIdentifier("i"), TInteger(1))),
                  <<TCall("f", <<>>)>>)>>),
        TFunction("g", <<>>, <<TReturn(TInteger(1))>>)>>)>>

\* class P { var x = 1; }
\* class T { function main() { var p = new P(); return p; } }
SrcNew ==
    <<TClass("P", <<TVariable("x", TInteger(1))>>),
      TClass("T", <<
        TFunction("main", <<>>, <<
            TVariable("p", TObject("P", <<>>)),
            TReturn(TIdentifier("p"))>>)>>)>>

\* class R { function constructor(v) { return v; } }
\* class T { function main() { var p = new R(7); return p; } }
SrcNewReturn ==
    <<TClass("R", <<
        TFunction("constructor", <<TIdentifier("v")>>, <<TReturn(TIdentifier("v"))>>)>>),
      TClass("T", <<
        TFunction("main", <<>>, <<
            TVariable("p", TObject("R", <<TInteger(7)>>)),
            TReturn(TIdentifier("p"))>>)>>)>>

\* class T { function main() { var f = function() { return 1; }; f(); } }
SrcAnonFunction ==
    <<TClass("T", <<
        TFunction("main", <<>>, <<
            TVariable("f", TAnonFunction(<<>>, <<TReturn(TInteger(1))>>)),
            TCall("f", <<>>)>>)>>)>>

\* class T { function a(c, f) { if c { } else { return 1; } }
\*           function b(x, g) { g(x, x, g); } }
SrcFallThrough ==
    <<TClass("T", <<
        TFunction("a", <<TIdentifier("c"), TIdentifier("f")>>, <<
            TIfElse(TIdentifier("c"), <<>>, TRUE, <<TReturn(TInteger(1))>>)>>),
        TFunction("b", <<TIdentifier("x"), TIdentifier("g")>>, <<
            TCall("g", <<TIdentifier("x"), TIdentifier("x"), TIdentifier("g")>>)>>)>>)>>

\* class T { function main() { helper(); } function helper() { var y = 1; } }
SrcCallThis ==
    <<TClass("T", <<
        TFunction("main", <<>>, <<TCall("helper", <<>>)>>),
        TFunction("helper", <<>>, <<TVariable("y", TInteger(1))>>)>>)>>

Prog(ins, symbols, program_globals, h) ==
    [instructions |-> ins, symbols |-> symbols, globals |-> program_globals,
     heap |-> h, err |-> FALSE, marks |-> <<>>]

\* M.main calls M.f(RecDepth, 7), which calls itself down to n = 0 and returns x;
\* then M.main calls M.g(x) on a stack that holds a value below the call
AsmCalls ==
    Prog(<<StackPush(FRefV("M.f")),            \*  0  M.main
           StackPush(IntV(RecDepth)),          \*  1
           StackPush(IntV(7)),                 \*  2
           InsN("Call", 2),                    \*  3
           InsN("MoveToLocalVariable", 0),     \*  4
           StackPush(IntV(40)),                \*  5
           StackPush(FRefV("M.g")),            \*  6
           InsN("LoadLocalVariable", 0),       \*  7
           InsN("Call", 1),                    \*  8
           InsN("LoadLocalVariable", 0),       \*  9
           I0("Add"),                          \* 10
           Return(TRUE),                       \* 11
           InsN("LoadLocalVariable", 0),       \* 12  M.f(n, x)
           StackPush(IntV(0)),                 \* 13
           I0("Equal"),                        \* 14
           InsN("JumpIfFalse", 3),             \* 15
           InsN("LoadLocalVariable", 1),       \* 16
           Return(TRUE),                       \* 17
           StackPush(FRefV("M.f")),            \* 18
           InsN("LoadLocalVariable", 0),       \* 19
           StackPush(IntV(1)),                 \* 20
           I0("Sub"),                          \* 21
           InsN("LoadLocalVariable", 1),       \* 22
           InsN("Call", 2),                    \* 23
           Return(TRUE),                       \* 24
           InsN("LoadLocalVariable", 0),       \* 25  M.g(x)
           InsN("MoveToLocalVariable", 3),     \* 26
           Return(FALSE)>>,                    \* 27
         ("M.main" :> 0) @@ ("M.f" :> 12) @@ ("M.g" :> 25), <<>>, <<>>)

\* M.main shares an array and a dictionary with M.g, which changes both
AsmAlias ==
    Prog(<<StackPush(ArrayV(1)),               \*  0  M.main
           StackPush(IntV(1)),                 \*  1
           I0("ArrayAdd"),                     \*  2
           InsN("CopyToLocalVariable", 0),     \*  3
           InsN("MoveToLocalVariable", 1),     \*  4
           StackPush(FRefV("M.g")),            \*  5
           InsN("LoadLocalVariable", 0),       \*  6
           StackPush(DictV(2)),                \*  7
           InsN("CopyToLocalVariable", 2),     \*  8
           InsN("Call", 2),                    \*  9
           InsN("LoadLocalVariable", 1),       \* 10
           I0("ArrayLength"),                  \* 11
           StackPush(IntV(2)),                 \* 12
           I0("Equal"),                        \* 13
           I0("Assert"),                       \* 14
           InsN("LoadLocalVariable", 2),       \* 15
           StackPush(StrV("k")),               \* 16
           I0("GetCollectionItemByKey"),       \* 17
           InsN("LoadLocalVariable", 1),       \* 18
           StackPush(IntV(0)),                 \* 19
           I0("GetCollectionItemByKey"),       \* 20
           I0("Add"),                          \* 21
           Return(TRUE),                       \* 22
           InsN("LoadLocalVariable", 0),       \* 23  M.g(array, dict)
           StackPush(IntV(8)),                 \* 24
           I0("ArrayAdd"),                     \* 25
           InsN("MoveToLocalVariable", 2),     \* 26
           InsN("LoadLocalVariable", 0),       \* 27
           StackPush(IntV(9)),                 \* 28
           StackPush(IntV(0)),                 \* 29
           I0("SetCollectionItemByKey"),       \* 30
           InsN("MoveToLocalVariable", 0),     \* 31
           InsN("LoadLocalVariable", 1),       \* 32
           StackPush(StrV("k")),               \* 33
           StackPush(IntV(5)),                 \* 34
           I0("DictionaryAdd"),                \* 35
           InsN("MoveToLocalVariable", 1),     \* 36
           Return(FALSE)>>,                    \* 37
         ("M.main" :> 0) @@ ("M.g" :> 23), <<>>,
         <<ArrayCell(<<>>), MapCell("Dictionary", EmptyMap)>>)

ClassP == ClassV(("x" :> NullV) @@ ("constructor" :> FRefV("P.constructor")))
ClassQ == ClassV(("y" :> NullV) @@ ("constructor" :> FRefV("Q.constructor")))

\* M.main creates two objects of class P and one of class Q, compares them, then
\* writes a field of the first; M.read reads a field of a new object; M.mix fills a
\* dictionary while two objects exist
AsmObjects ==
    Prog(<<InsN("LoadGlobal", 0),              \*  0  M.main
           I0("CreateObject"),                 \*  1
           InsN("MoveToLocalVariable", 0),     \*  2
           InsN("LoadGlobal", 0),              \*  3
           I0("CreateObject"),                 \*  4
           InsN("MoveToLocalVariable", 1),     \*  5
           InsN("LoadGlobal", 1),              \*  6
           I0("CreateObject"),                 \*  7
           InsN("MoveToLocalVariable", 2),     \*  8
           InsN("LoadLocalVariable", 0),       \*  9
           InsN("LoadLocalVariable", 1),       \* 10
           I0("Equal"),                        \* 11
           I0("Assert"),                       \* 12
           InsN("LoadLocalVariable", 0),       \* 13
           StackPush(IntV(1)),                 \* 14
           StackPush(StrV("x")),               \* 15
           I0("SetCollectionItemByKey"),       \* 16
           Return(TRUE),                       \* 17
           InsN("LoadGlobal", 0),              \* 18  M.read
           I0("CreateObject"),                 \* 19
           StackPush(StrV("x")),               \* 20
           I0("GetCollectionItemByKey"),       \* 21
           Return(TRUE),                       \* 22
           InsN("LoadGlobal", 0),              \* 23  M.mix
           I0("CreateObject"),                 \* 24
           InsN("MoveToLocalVariable", 0),     \* 25
           InsN("LoadGlobal", 1),              \* 26
           I0("CreateObject"),                 \* 27
           InsN("MoveToLocalVariable", 1),     \* 28
           StackPush(DictV(1)),                \* 29
           StackPush(StrV("x")),               \* 30
           StackPush(IntV(1)),                 \* 31
           I0("DictionaryAdd"),                \* 32
           Return(TRUE)>>,                     \* 33
         ("M.main" :> 0) @@ ("M.read" :> 18) @@ ("M.mix" :> 23), <<ClassP, ClassQ>>,
         <<MapCell("Dictionary", EmptyMap)>>)

\* class T { function lt(a, b) { return a < b; }
\*           function le(a, b) { return a <= b; }
\*           function gt(a, b) { return a > b; }
\*           function ge(a, b) { return a >= b; }
\*           function div(a, b) { return a / b; }
\*           function mix(a, b) { return "v = " + (a + b) * (a - b) * 0.5; } }
SrcNumbers ==
    <<TClass("T", <<
        TFunction("lt", <<TIdentifier("a"), TIdentifier("b")>>, <<
            TReturn(TBinary("Lt", TIdentifier("a"), TIdentifier("b")))>>),
        TFunction("le", <<TIdentifier("a"), TIdentifier("b")>>, <<
            TReturn(TBinary("Le", TIdentifier("a"), TIdentifier("b")))>>),
        TFunction("gt", <<TIdentifier("a"), TIdentifier("b")>>, <<
            TReturn(TBinary("Gt", TIdentifier("a"), TIdentifier("b")))>>),
        TFunction("ge", <<TIdentifier("a"), TIdentifier("b")>>, <<
            TReturn(TBinary("Ge", TIdentifier("a"), TIdentifier("b")))>>),
        TFunction("div", <<TIdentifier("a"), TIdentifier("b")>>, <<
            TReturn(TBinary("Div", TIdentifier("a"), TIdentifier("b")))>>),
        TFunction("mix", <<TIdentifier("a"), TIdentifier("b")>>, <<
            TReturn(TBinary("Add", TString("v = "),
                TBinary("Mul",
                    TBinary("Mul", TBinary("Add", TIdentifier("a"), TIdentifier("b")),
                                   TBinary("Sub", TIdentifier("a"), TIdentifier("b"))),
                    TFloat(F32Val(1, -1, "")))))>>)>>)>>

\* class T { function main() { for v in items { total = total + v; } return 0; } }
SrcForEach ==
    <<TClass("T", <<
        TFunction("main", <<>>, <<
            TForEach("v", TIdentifier("items"), <<
                TAssign(TIdentifier("total"),
                        TBinary("Add", TIdentifier("total"), TIdentifier("v")))>>),
            TReturn(TInteger(0))>>)>>)>>

\* class T { function main() { var a = 1; var a = 2; return a; } }
SrcRedeclare ==
    <<TClass("T", <<
        TFunction("main", <<>>, <<
            TVariable("a", TInteger(1)), TVariable("a", TInteger(2)),
            TReturn(TIdentifier("a"))>>)>>)>>

\* class T { function main(n) { if n < 1 { return m; } return n; } }
SrcUndeclared ==
    <<TClass("T", <<
        TFunction("main", <<TIdentifier("n")>>, <<
            TIfElse(TBinary("Lt", TIdentifier("n"), TInteger(1)),
                    <<TReturn(TIdentifier("m"))>>, FALSE, <<>>),
            TReturn(TIdentifier("n"))>>)>>)>>

\* class T { function main(c) { if c { var v = 1; } var w = 2; return v; }
\*           function bare(c) { if c { var v = 1; } return v; } }
SrcBranchVar ==
    <<TClass("T", <<
        TFunction("main", <<TIdentifier("c")>>, <<
            TIfElse(TIdentifier("c"), <<TVariable("v", TInteger(1))>>, FALSE, <<>>),
            TVariable("w", TInteger(2)),
            TReturn(TIdentifier("v"))>>),
        TFunction("bare", <<TIdentifier("c")>>, <<
            TIfElse(TIdentifier("c"), <<TVariable("v", TInteger(1))>>, FALSE, <<>>),
            TReturn(TIdentifier("v"))>>)>>)>>

\* class T { function main(f) { var x = f(); return x; }
\*           function seven() { return 7; }
\*           function none() { var y = 1; } }
SrcCallValue ==
    <<TClass("T", <<
        TFunction("main", <<TIdentifier("f")>>, <<
            TVariable("x", TCall("f", <<>>)), TReturn(TIdentifier("x"))>>),
        TFunction("seven", <<>>, <<TReturn(TInteger(7))>>),
        TFunction("none", <<>>, <<TVariable("y", TInteger(1))>>)>>)>>

\* class T { function main(f) { var inner = {"m": f}; var a = {"b": inner};
\*                              return a.b.m(); }
\*           function who() { return this; } }
SrcChainCall ==
    <<TClass("T", <<
        TFunction("main", <<TIdentifier("f")>>, <<
            TVariable("inner", TDictionary(<<TKeyValuePair("m", TIdentifier("f"))>>)),
            TVariable("a", TDictionary(<<TKeyValuePair("b", TIdentifier("inner"))>>)),
            TReturn(TChain(TIdentifier("a"),
                           <<TIdentifier("b"), TCall("m", <<>>)>>))>>),
        TFunction("who", <<>>, <<TReturn(TIdentifier("this"))>>)>>)>>

\* the operands of SrcNumbers: Integers, the Floats 1.5, -2.0, 0.0, -0.0 and NaN, and
\* values of other variants
Numbers == {IntV(-7), IntV(0), IntV(2), F32Val(3, -1, ""), F32Val(-1, 1, ""),
            F32Zero(FALSE), F32Zero(TRUE), F32NaN}
Operands == Numbers \cup {NullV, BoolV(TRUE), StrV("a")}

\* the remaining instructions, one entry each
AsmMisc ==
    Prog(<<StackPush(IntV(1)),                 \*  0  M.cmp
           StackPush(IntV(2)),                 \*  1
           I0("LessThan"),                     \*  2
           I0("Assert"),                       \*  3
           StackPush(IntV(2)),                 \*  4
           StackPush(IntV(2)),                 \*  5
           I0("LessThanOrEqual"),              \*  6
           I0("Assert"),                       \*  7
           StackPush(IntV(3)),                 \*  8
           StackPush(IntV(2)),                 \*  9
           I0("GreaterThan"),                  \* 10
           I0("Assert"),                       \* 11
           StackPush(IntV(2)),                 \* 12
           StackPush(IntV(2)),                 \* 13
           I0("GreaterThanOrEqual"),           \* 14
           I0("Assert"),                       \* 15
           StackPush(IntV(1)),                 \* 16
           StackPush(IntV(2)),                 \* 17
           I0("NotEqual"),                     \* 18
           I0("Assert"),                       \* 19
           StackPush(IntV(-7)),                \* 20
           StackPush(IntV(2)),                 \* 21
           I0("Divide"),                       \* 22
           StackPush(IntV(3)),                 \* 23
           I0("Pow"),                          \* 24
           I0("Multiply"),                     \* 25
           I0("Halt"),                         \* 26
           InsN("StackPop", 1),                \* 27  M.pop
           InsN("JumpForward", 100),           \* 28  M.far
           InsN("JumpBackward", 100),          \* 29  M.back
           StackPush(IntV(5))>>,               \* 30  M.end
         ("M.cmp" :> 0) @@ ("M.pop" :> 27) @@ ("M.far" :> 28) @@ ("M.back" :> 29)
            @@ ("M.end" :> 30),
         <<>>, <<>>)

\* the ends of exec other than a Return in the root frame, and ArrayAdd and
\* DictionaryAdd on a value that is no collection
AsmStops ==
    Prog(<<I0("Halt"),                         \*  0  M.halt0
           StackPush(IntV(3)),                 \*  1  M.halt1
           I0("Halt"),                         \*  2
           StackPush(IntV(4)),                 \*  3  M.callhalt
           StackPush(FRefV("M.halt1")),        \*  4
           InsN("Call", 0),                    \*  5
           Return(FALSE),                      \*  6
           StackPush(IntV(1)),                 \*  7  M.odd
           StackPush(IntV(2)),                 \*  8
           StackPush(IntV(3)),                 \*  9
           I0("ArrayAdd"),                     \* 10
           StackPush(IntV(4)),                 \* 11
           StackPush(IntV(5)),                 \* 12
           I0("DictionaryAdd"),                \* 13
           Return(FALSE),                      \* 14
           StackPush(IntV(1)),                 \* 15  M.endempty
           InsN("MoveToLocalVariable", 0)>>,   \* 16
         ("M.halt0" :> 0) @@ ("M.halt1" :> 1) @@ ("M.callhalt" :> 3) @@ ("M.odd" :> 7)
            @@ ("M.endempty" :> 15),
         <<>>, <<>>)

\* M.add(a, b) adds two of the arrays [1, 2], [3] and [], or one of them to itself
AsmArrays ==
    Prog(<<InsN("LoadLocalVariable", 0),       \*  0  M.add(a, b)
           InsN("LoadLocalVariable", 1),       \*  1
           I0("Add"),                          \*  2
           Return(TRUE)>>,                     \*  3
         ("M.add" :> 0), <<>>,
         <<ArrayCell(<<IntV(1), IntV(2)>>), ArrayCell(<<IntV(3)>>), ArrayCell(<<>>)>>)

\* conditional jumps on the argument: backwards, by nothing and forwards
AsmJumps ==
    Prog(<<StackPush(IntV(1)),                 \*  0  M.low
           Return(TRUE),                       \*  1
           InsN("LoadLocalVariable", 0),       \*  2  M.neg(b)
           InsN("JumpIfFalse", -3),            \*  3
           StackPush(IntV(2)),                 \*  4
           Return(TRUE),                       \*  5
           StackPush(IntV(3)),                 \*  6
           Return(TRUE),                       \*  7
           InsN("LoadLocalVariable", 0),       \*  8  M.zero(b)
           InsN("JumpIfFalse", 0),             \*  9
           StackPush(IntV(4)),                 \* 10
           Return(TRUE),                       \* 11
           InsN("LoadLocalVariable", 0),       \* 12  M.pos(b)
           InsN("JumpIfFalse", 2),             \* 13
           Return(FALSE),                      \* 14
           StackPush(IntV(5)),                 \* 15
           Return(TRUE)>>,                     \* 16
         ("M.low" :> 0) @@ ("M.neg" :> 2) @@ ("M.zero" :> 8) @@ ("M.pos" :> 12),
         <<>>, <<>>)

\* M.gap stores into slot 2 and reads slot 1; M.over reads slot 0 without arguments
AsmSlots ==
    Prog(<<StackPush(IntV(5)),                 \*  0  M.gap
           InsN("MoveToLocalVariable", 2),     \*  1
           InsN("LoadLocalVariable", 1),       \*  2
           Return(TRUE),                       \*  3
           InsN("LoadLocalVariable", 0),       \*  4  M.over
           Return(TRUE)>>,                     \*  5
         ("M.gap" :> 0) @@ ("M.over" :> 4), <<>>, <<>>)

\* M.main ends with the Call of M.f
AsmTailCall ==
    Prog(<<Return(FALSE),                      \*  0  M.f
           StackPush(FRefV("M.f")),            \*  1  M.main
           InsN("Call", 0)>>,                  \*  2
         ("M.f" :> 0) @@ ("M.main" :> 1), <<>>, <<>>)

AsmEmpty == Prog(<<>>, EmptyMap, <<>>, <<>>)

None == <<>>

Source(script, runs) == [kind |-> "source", script |-> script, runs |-> runs]
Assembled(program, runs) == [kind |-> "assembled", program |-> program, runs |-> runs]

Workloads ==
    <<Source(SrcArith, {Run("T.main", None), Run("T.idle", None), Run("Main.main", None)}),
      Source(SrcLoopLiteral, {Run("T.main", None)}),
      Source(SrcAlias, {Run("T.main", None)}),
      Source(SrcChainStatement, {Run("T.main", None)}),
      Source(SrcIfElse, {Run("T.main", None)}),
      Source(SrcIfNested, {Run("T.main", <<NullV, BoolV(a), BoolV(b)>>) : a, b \in BOOLEAN}),
      Source(SrcIfEmpty, {Run("T.main", <<NullV, BoolV(a), BoolV(b)>>) : a, b \in BOOLEAN}),
      Source(SrcLoops, {Run("T.main", <<NullV, IntV(n)>>) : n \in 0..(LoopCount + 1)}),
      Source(SrcCallLocal, {Run("T.main", <<NullV, FRefV("T.g")>>)}),
      Source(SrcNew, {Run("T.main", None), Run("P.constructor", None)}),
      Source(SrcNewReturn, {Run("T.main", None)}),
      Source(SrcAnonFunction, {Run("T.main", None)}),
      Source(SrcFallThrough, {Run("T.b", <<NullV, BoolV(c), FRefV("T.a")>>) : c \in BOOLEAN}),
      Source(SrcCallThis, {Run("T.main", None), Run("T.main", <<StrV("host")>>)}),
      Source(SrcNumbers,
             {Run(e, <<NullV, a, b>>) :
                  e \in {"T.lt", "T.le", "T.gt", "T.ge", "T.div"}, a \in Operands, b \in Operands}
                 \cup {Run("T.mix", <<NullV, a, b>>) : a \in Numbers, b \in Numbers}),
      Assembled(AsmCalls, {Run("M.main", None)}),
      Assembled(AsmAlias, {Run("M.main", None)}),
      Assembled(AsmObjects, {Run("M.main", None), Run("M.read", None),
                             Run("M.mix", None)}),
      Assembled(AsmMisc, {Run("M.cmp", None), Run("M.pop", None), Run("M.far", None),
                          Run("M.back", None), Run("M.end", None),
                          Run("M.nowhere", None)}),
      Assembled(AsmStops, {Run("M.halt0", None), Run("M.halt1", None),
                           Run("M.callhalt", None), Run("M.odd", None),
                           Run("M.endempty", None)}),
      Source(SrcForEach, {Run("T.main", None)}),
      Source(SrcRedeclare, {Run("T.main", None)}),
      Source(SrcUndeclared, {Run("T.main", <<NullV, IntV(1)>>)}),
      Source(SrcBranchVar, {Run(e, <<NullV, BoolV(c)>>) : e \in {"T.main", "T.bare"},
                                                          c \in BOOLEAN}),
      Source(SrcCallValue, {Run("T.main", <<NullV, FRefV(f)>>) : f \in {"T.seven", "T.none"}}),
      Source(SrcChainCall, {Run("T.main", <<NullV, FRefV("T.who")>>)}),
      Assembled(AsmJumps, {Run(e, <<b>>) : e \in {"M.neg", "M.zero", "M.pos"},
                                            b \in {BoolV(TRUE), BoolV(FALSE), NullV}}),
      Assembled(AsmSlots, {Run("M.gap", None), Run("M.gap", <<IntV(8)>>),
                           Run("M.over", None)}),
      Assembled(AsmTailCall, {Run("M.main", None)}),
      Assembled(AsmArrays, {Run("M.add", <<ArrayV(a), ArrayV(b)>>) : a, b \in 1..3}),
      Assembled(AsmEmpty, {Run("M.main", None)})>>

W == Workloads[progId]
Compiled == W.kind = "source"

\* the Program handed to VM::new: Compiler::compile(script) for a source
Program == IF Compiled THEN compile(W.script) ELSE W.program

(***************************************************************************)
(* VM::new and VM::exec.                                                   *)
(***************************************************************************)
NoLast == [op |-> "none", ip |-> 0, k |-> "none", frames |-> <<>>, heap |-> <<>>]

\* VM::new(program); a source whose compilation panics yields no program
Init ==
    /\ progId \in 1..Len(Workloads)
    /\ overflow_checks \in BOOLEAN
    /\ \E program \in {Program} :
          /\ instructions = program.instructions
          /\ functions = program.symbols
          /\ globals = program.globals
          /\ heap = program.heap
          /\ status = IF program.err THEN "nocompile" ELSE "init"
    /\ frames = <<>>
    /\ ip = 0
    /\ result = NullV
    /\ entry = ""
    /\ last = NoLast

\* where exec starts: the entry's offset when the symbol table has it
entry_ip(symbols, name, i) == IF name \in DOMAIN symbols THEN symbols[name] ELSE i

\* VM::exec up to the loop
DoExec ==
    /\ status = "init"
    /\ \E r \in W.runs :
          /\ entry' = r.entry
          /\ ip' = entry_ip(functions, r.entry, ip)
          /\ IF Len(instructions) = 0
             THEN status' = "done" /\ UNCHANGED frames
             ELSE /\ status' = "running"
                  /\ frames' = <<NewFrame("main", NoReturn, r.parameters, -1, 0)>>
    /\ last' = [NoLast EXCEPT !.op = "exec"]
    /\ UNCHANGED <<progId, instructions, functions, globals, heap, result,
                   overflow_checks>>

Next ==
    \/ DoExec
    \/ DoAssert
    \/ DoPrint
    \/ DoCall
    \/ DoReturn
    \/ DoCreateObject
    \/ DoJumpForward
    \/ DoJumpBackward
    \/ DoJumpIfFalse
    \/ DoStackPush
    \/ DoMoveToLocalVariable
    \/ DoCopyToLocalVariable
    \/ DoLoadLocalVariable
    \/ DoLoadGlobal
    \/ DoArrayLength
    \/ DoArrayAdd
    \/ DoDictionaryAdd
    \/ DoGetCollectionItemByKey
    \/ DoSetCollectionItemByKey
    \/ DoAdd
    \/ DoSub
    \/ DoMultiply
    \/ DoDivide
    \/ DoPow
    \/ DoEqual
    \/ DoNotEqual
    \/ DoLessThan
    \/ DoLessThanOrEqual
    \/ DoGreaterThan
    \/ DoGreaterThanOrEqual
    \/ DoHalt
    \/ DoUnknownInstruction
    \/ DoFetchOutOfRange

Spec == Init /\ [][Next]_vars

\* exec runs to its end: the loop of VM::exec goes on as long as it can
LiveSpec == Spec /\ WF_vars(Next)

(***************************************************************************)
(* Properties.  `last` holds the instruction executed last, the ip, frames *)
(* and heap it started from, and its outcome.                              *)
(***************************************************************************)
Executed == last.op \notin {"none", "exec"}
ExecCalled == status \notin {"init", "nocompile"}
\* the instruction executed last went on to the next loop iteration
Ran(op) == last.op = op /\ last.k = "next"
\* the frame and the instruction the last step started from
Before == Top(last.frames)
LastIns == instructions[last.ip + 1]

\* every value a frame holds, in its slots and on its operand stack
Held(f) ==
    {f.variables[i] : i \in 1..Len(f.variables)} \cup {f.data[i] : i \in 1..Len(f.data)}

\* the methods of a script, by their symbol
Methods(script) ==
    UNION {{[name |-> get_full_name(script[i].name, script[i].items[j].s),
             statements |-> script[i].items[j].items] :
                j \in {j \in 1..Len(script[i].items) : script[i].items[j].t = "Function"}} :
           i \in {i \in 1..Len(script) : script[i].t = "Class"}}

RECURSIVE ContainsReturn(_)
ContainsReturn(statements) ==
    \E i \in 1..Len(statements) :
        \/ statements[i].t = "Return"
        \/ /\ statements[i].t \in {"IfElse", "WhileLoop", "ForI", "ForEach"}
           /\ ContainsReturn(statements[i].items)
        \/ /\ statements[i].t = "IfElse"
           /\ ContainsReturn(statements[i].else_body)

\* C1: a Return that pops the frame a Call at index c pushed at depth d sets ip to
\* c + 1 and leaves the frame stack at depth d; every frame above the root was pushed
\* at the depth just below it, so calls and returns nest last-in first-out.
C1_ReturnMatchesCall ==
    /\ \A i \in 2..Len(frames) : frames[i].callDepth = i - 1
    /\ Ran("Return") =>
          /\ ip = Before.callIp + 1
          /\ Len(frames) = Before.callDepth
          /\ Len(frames) = Len(last.frames) - 1
          /\ Front(frames) = SubSeq(last.frames, 1, Len(frames) - 1)

\* a Return of the innermost of RecDepth + 1 nested calls of the recursive function
C1_Witness == Ran("Return") /\ Len(last.frames) = RecDepth + 2

\* C2: Call[n] on a stack holding function_ref, arg1 .. argn takes exactly these
\* n + 1 values off the caller's stack, gives the callee slot k-1 = argk, and sets ip
\* to the symbol-table offset of the function function_ref names.
C2_CallBindsArguments ==
    Ran("Call") =>
        LET n == LastIns.n
            before == Before.data
            function_ref == before[Len(before) - n]
            caller == frames[Len(frames) - 1]
            callee == Top(frames)
        IN  /\ Len(frames) = Len(last.frames) + 1
            /\ caller.data = SubSeq(before, 1, Len(before) - (n + 1))
            /\ caller.variables = Before.variables
            /\ Len(callee.variables) = n
            /\ \A k \in 1..n : callee.variables[k] = before[Len(before) - n + k]
            /\ callee.data = <<>>
            /\ function_ref.t = "FunctionRef" => ip = functions[function_ref.s]

\* a Call[2] with two different arguments, made from a frame that was itself called
C2_Witness ==
    /\ Ran("Call")
    /\ LastIns.n = 2
    /\ Top(frames).variables[1] /= Top(frames).variables[2]
    /\ Len(frames) >= 3

\* C3: whenever an instruction of a compiled method runs, slot 0 of its frame holds
\* the receiver object.
C3_ThisInSlotZero ==
    (Compiled /\ Executed) =>
        /\ Before.variables /= <<>>
        /\ Before.variables[1].t = "Object"

\* C4: a Return in the root frame ends exec with the popped top of stack when it has
\* a value and with Null otherwise; a compiled entry method without a return
\* statement yields Null.
C4_RootReturnIsResult ==
    /\ (last.op = "Return" /\ last.k /= "panic" /\ Before.return_position = NoReturn) =>
          /\ status = "done"
          /\ result = IF LastIns.n = 1 THEN Top(Before.data) ELSE NullV
    /\ (Compiled /\ status = "done"
          /\ \E m \in Methods(W.script) : m.name = entry /\ ~ContainsReturn(m.statements)) =>
          result = NullV

\* a root Return without a value while the operand stack still holds one
C4_Witness ==
    /\ Compiled
    /\ last.op = "Return" /\ last.k = "return"
    /\ LastIns.n = 0
    /\ Before.data /= <<>>
    /\ Top(Before.data) /= NullV
    /\ status = "done"

\* C5: exec with an entry name the symbol table does not hold executes no instruction
\* and does not end with a result.
C5_MissingEntryFails ==
    (ExecCalled /\ entry \notin DOMAIN functions) =>
        /\ ~Executed
        /\ status /= "done"

C8_ProgramReadOnly ==
    /\ instructions = Program.instructions
    /\ functions = Program.symbols
    /\ globals = Program.globals
    /\ \A i \in 1..Len(instructions) :
          (instructions[i].op = "StackPush" /\ IsShared(instructions[i].v)) =>
              heap[instructions[i].v.n] = Program.heap[instructions[i].v.n]
    /\ (Ran("StackPush") /\ IsShared(LastIns.v)) =>
          \A i \in 1..Len(last.frames) : \A x \in Held(last.frames[i]) :
              IsShared(x) => x.n /= LastIns.v.n

\* C9: SetCollectionItemByKey of value under key on an array with an in-range
\* Integer key, a dictionary with a String key or an object with a member-name key
\* succeeds, reading the key back yields value, and every other entry is unchanged.
C9_SetThenGet ==
    (last.op = "SetCollectionItemByKey" /\ Len(Before.data) >= 3) =>
        LET collection == Before.data[Len(Before.data) - 2]
            value == Before.data[Len(Before.data) - 1]
            key == Top(Before.data)
            old == last.heap[collection.n]
            new == heap[collection.n]
        IN  /\ (collection.t = "Array" /\ key.t = "Integer"
                  /\ key.n \in 0..(Len(old.items) - 1)) =>
                  /\ last.k = "next"
                  /\ get_item(collection, key, heap) = Res(value, heap)
                  /\ Len(new.items) = Len(old.items)
                  /\ \A j \in 1..Len(old.items) :
                        j /= key.n + 1 => new.items[j] = old.items[j]
            /\ ((collection.t = "Dictionary" /\ key.t = "String")
                  \/ (collection.t = "Object" /\ key.t = "String"
                         /\ key.s \in DOMAIN old.map)) =>
                  /\ last.k = "next"
                  /\ new.map = MapInsert(old.map, key.s, value)

\* C10: in a compiled program a frame's operand stack holds nothing but the return
\* value when it executes Return, and nothing at the jump back to the head of a
\* loop.
C10_StackBalanced ==
    /\ (Compiled /\ last.op = "Return" /\ last.k /= "panic") =>
          Len(Before.data) = LastIns.n
    /\ (Compiled /\ Ran("JumpBackward")) => Before.data = <<>>

\* the change of the operand-stack depth that the instruction set gives an opcode
StackDelta(op) ==
    CASE op \in {"StackPush", "LoadLocalVariable", "LoadGlobal"} -> 1
      [] op \in {"CopyToLocalVariable", "CreateObject", "ArrayLength"} -> 0
      [] op \in {"DictionaryAdd", "SetCollectionItemByKey"} -> -2
      [] OTHER -> -1

NonControlOps == KnownOps \ {"Call", "Return", "JumpForward", "JumpBackward",
                             "JumpIfFalse", "Halt"}

\* C11: an instruction other than a call, return, jump or halt that completes changes
\* the depth of the current frame's operand stack by the amount fixed for its opcode:
\* +1 for the pushes and loads, 0 for CopyToLocalVariable, CreateObject and
\* ArrayLength, -2 for DictionaryAdd and SetCollectionItemByKey, -1 for the rest.
C11_StackDeltaFixed ==
    (Executed /\ last.op \in NonControlOps /\ status = "running") =>
        Len(F.data) - Len(Before.data) = StackDelta(last.op)

\* the marks of the compiled program that are `if` statements, and their regions:
\* the then body with the JumpForward that ends it, and the else body
IfMarks == {Program.marks[i] : i \in {i \in 1..Len(Program.marks) : Program.marks[i].kind = "if"}}
ThenRegion(m) == (m.head + 1)..m.body_end
ElseRegion(m) == (m.body_end + 1)..(m.end - 1)
\* the last instruction went on in the same frame
Stepped == Executed /\ last.k = "next" /\ last.op \notin {"Call", "Return"}

\* C12: in a compiled if, the JumpIfFalse on a false condition goes to the first
\* instruction of the else body (to the first instruction after the statement when
\* there is none) and on a true condition to the first instruction of the then body;
\* the JumpForward after the then body goes to the first instruction after the else
\* body; the then body is entered only by a JumpIfFalse that did not jump and the
\* else body only by one that did, so the body not chosen executes no instruction.
C12_IfElseJumps ==
    Compiled =>
        \A m \in IfMarks :
            /\ (Stepped /\ last.ip = m.head) =>
                  /\ last.op = "JumpIfFalse"
                  /\ ip = IF Top(Before.data) = BoolV(FALSE) THEN m.body_end + 1
                          ELSE m.head + 1
            /\ (Stepped /\ last.ip = m.body_end) =>
                  /\ last.op = "JumpForward"
                  /\ ip = m.end
            /\ (Stepped /\ ip \in ThenRegion(m) /\ last.ip \notin ThenRegion(m)) =>
                  /\ last.ip = m.head
                  /\ Top(Before.data) /= BoolV(FALSE)
            /\ (Stepped /\ ip \in ElseRegion(m) /\ last.ip \notin ElseRegion(m)) =>
                  /\ last.ip = m.head
                  /\ Top(Before.data) = BoolV(FALSE)

\* a false condition of an if with an else body, nested in the else body of another if
C12_Witness ==
    /\ Compiled
    /\ \E m, outer \in IfMarks :
          /\ m.start \in ElseRegion(outer)
          /\ m.end > m.body_end + 1
          /\ Stepped /\ last.ip = m.head
          /\ Top(Before.data) = BoolV(FALSE)
          /\ ip = m.body_end + 1

\* a true condition of an if with an empty else body: the JumpForward was taken
C12_WitnessThen ==
    /\ Compiled
    /\ \E m \in IfMarks :
          /\ m.end = m.body_end + 1
          /\ m.body_end > m.head + 1
          /\ Stepped /\ last.ip = m.body_end

\* the marks of the compiled program that are loops, and their regions: the init
\* statement of a for loop, the body with the step and the JumpBackward, the whole loop
LoopMarks ==
    {Program.marks[i] : i \in {i \in 1..Len(Program.marks) :
                                  Program.marks[i].kind \in {"for", "while"}}}
InitRegion(m) == m.start..(m.cond - 1)
BodyRegion(m) == (m.head + 1)..m.body_end
LoopRegion(m) == m.cond..(m.end - 1)

\* C13: in a compiled while or for loop the JumpBackward after the body (and the
\* step) goes to the first instruction of the condition; the JumpIfFalse on a false
\* condition goes to the first instruction after the JumpBackward and otherwise to
\* the first instruction of the body; the body is entered only by a JumpIfFalse
\* that did not jump and left only by the JumpBackward, so it runs once per true
\* condition; the init statement is never entered from inside its loop.
C13_LoopJumps ==
    Compiled =>
        \A m \in LoopMarks :
            /\ (Stepped /\ last.ip = m.body_end) =>
                  /\ last.op = "JumpBackward"
                  /\ ip = m.cond
            /\ (Stepped /\ last.ip = m.head) =>
                  /\ last.op = "JumpIfFalse"
                  /\ ip = IF Top(Before.data) = BoolV(FALSE) THEN m.body_end + 1
                          ELSE m.head + 1
            /\ (Stepped /\ ip \in BodyRegion(m) /\ last.ip \notin BodyRegion(m)) =>
                  /\ last.ip = m.head
                  /\ Top(Before.data) /= BoolV(FALSE)
            /\ (Stepped /\ last.ip \in BodyRegion(m) /\ ip \notin BodyRegion(m)) =>
                  last.ip = m.body_end
            /\ (Stepped /\ ip \in InitRegion(m) /\ last.ip \notin InitRegion(m)) =>
                  last.ip \notin LoopRegion(m)
            /\ (Stepped /\ last.ip \in LoopRegion(m) /\ ip \notin LoopRegion(m)) =>
                  /\ last.ip = m.head
                  /\ Top(Before.data) = BoolV(FALSE)
                  /\ ip = m.end

\* the JumpBackward of a while loop nested in the body of a for loop, taken while the
\* for loop is in a later iteration than its first
C13_Witness ==
    /\ Compiled
    /\ \E m, outer \in LoopMarks :
          /\ m.kind = "while" /\ outer.kind = "for"
          /\ m.start \in BodyRegion(outer)
          /\ Stepped /\ last.ip = m.body_end
          /\ ip = m.cond
          /\ Len(F.variables) > 3 /\ F.variables[4] = IntV(LoopCount)

\* the marks of the compiled program that are `new` expressions; the class a `new`
\* names is the one its LoadGlobal loads, the classes being declared in script order
NewMarks == {Program.marks[i] : i \in {i \in 1..Len(Program.marks) : Program.marks[i].kind = "new"}}
NewRegion(m) == m.start..(m.end - 1)
Classes == SelectSeq(W.script, LAMBDA token : token.t = "Class")
ClassOfNew(m) == Classes[instructions[m.start + 1].n + 1]
DeclaresConstructor(class) ==
    \E i \in 1..Len(class.items) :
        class.items[i].t = "Function" /\ class.items[i].s = CLASS_CONSTRUCTOR_FUNCTION_NAME
\* the value of a field initialiser that is a literal
Literal(token) ==
    CASE token.t = "Integer" -> IntV(token.n)
      [] token.t = "Bool" -> BoolV(token.b)
      [] token.t = "String" -> StrV(token.s)
      [] OTHER -> NullV
\* the last instruction of the `new` expression m went through: the expression is evaluated
Evaluated(m) == Stepped /\ last.ip = m.end - 1
FailedIn(m) == Executed /\ last.k = "panic" /\ last.ip \in NewRegion(m)

\* C14: `new C()` of a class with fields and no constructor is evaluated without a
\* failure, and the object it yields then holds, under each declared field, the value
\* of the field's initialiser.
C14_DefaultConstructorInitialises ==
    Compiled =>
        \A m \in NewMarks :
            ~DeclaresConstructor(ClassOfNew(m)) =>
                /\ ~FailedIn(m)
                /\ Evaluated(m) =>
                      LET object == Top(F.data)
                          class == ClassOfNew(m)
                      IN  /\ object.t = "Object"
                          /\ \A i \in 1..Len(class.items) :
                                class.items[i].t = "Variable" =>
                                    heap[object.n].map[TokenToString(class.items[i].a)]
                                        = Literal(class.items[i].b)

\* C15: `new C(args)` is evaluated without a failure and leaves the operand stack as
\* it was with the new object on top, the object that the constructor got in slot 0;
\* the Return of the constructor leaves the caller's operand stack as the Call left
\* it, with or without a return value.
C15_NewLeavesTheObject ==
    Compiled =>
        \A m \in NewMarks :
            /\ ~FailedIn(m)
            /\ Evaluated(m) =>
                  /\ F.data = Append(Before.data, Top(F.data))
                  /\ Top(F.data).t = "Object"
            /\ (Ran("Return") /\ ip = m.end - 1) =>
                  /\ F.data = last.frames[Len(last.frames) - 1].data
                  /\ Before.variables /= <<>>
                  /\ Before.variables[1] = F.variables[instructions[m.end].n + 1]

\* the names the compiled program pushes as FunctionRef literals: the compiler emits
\* such a push for an anonymous function literal only
PushedFunctionRefs ==
    {instructions[i].v.s : i \in {i \in 1..Len(instructions) :
        instructions[i].op = "StackPush" /\ instructions[i].v.t = "FunctionRef"}}
\* name is "<class>.func<index>" for a class of the script
QualifiedAnonymous(name) ==
    \E c \in 1..Len(Classes) : \E k \in 0..Len(instructions) :
        name = get_full_name(Classes[c].name, "func" \o NatToString(k))

\* C16: the name of every FunctionRef that a compiled program pushes for an
\* anonymous function literal is qualified with a class of the script and is a key
\* of the symbol table, and a Call on such a value enters the function.
C16_AnonymousFunctionCallable ==
    Compiled =>
        /\ \A name \in PushedFunctionRefs :
              /\ QualifiedAnonymous(name)
              /\ name \in DOMAIN functions
              /\ functions[name] < Len(instructions)
        /\ (Executed /\ last.op = "Call" /\ Len(Before.data) > LastIns.n
              /\ Before.data[Len(Before.data) - LastIns.n].s \in PushedFunctionRefs) =>
              /\ last.k = "next"
              /\ ip = functions[Before.data[Len(Before.data) - LastIns.n].s]

Stopped == Executed /\ last.k \in {"next", "halt"}
              /\ (last.op = "Halt" \/ ip = Len(instructions))

\* C18: when Halt executes or ip reaches the end of the instructions exec ends
\* without a failure, whether the current frame's operand stack is empty or not, and
\* its result is the top of that stack when there is one.
C18_StopYieldsTop ==
    Stopped =>
        /\ status = "done"
        /\ (last.op = "Halt" /\ Before.data /= <<>>) => result = Top(Before.data)
        /\ (last.op = "StackPush") => result = LastIns.v

\* the operands of the binary instruction executed last
LastRhs == Top(Before.data)
LastLhs == Before.data[Len(Before.data) - 1]
Numeric(v) == v.t \in {"Integer", "Float"}
AsFloat(v) == IF v.t = "Integer" THEN IntToF32(v.n) ELSE v
OrderingOps == {"LessThan", "LessThanOrEqual", "GreaterThan", "GreaterThanOrEqual"}

\* lhs op rhs for two numbers: by the integers when both are Integer, by the float
\* values otherwise
Ordered(op, lhs, rhs) ==
    LET c == IF lhs.t = "Integer" /\ rhs.t = "Integer"
             THEN (IF lhs.n < rhs.n THEN -1 ELSE IF lhs.n = rhs.n THEN 0 ELSE 1)
             ELSE F32Cmp(AsFloat(lhs), AsFloat(rhs))
    IN  CASE op = "LessThan" -> c = -1
          [] op = "LessThanOrEqual" -> c \in {-1, 0}
          [] op = "GreaterThan" -> c = 1
          [] OTHER -> c \in {0, 1}

\* C19: LessThan, LessThanOrEqual, GreaterThan and GreaterThanOrEqual push the
\* boolean of the ordering when both operands are numbers (Integer/Integer,
\* Float/Float, or one of each with the Integer taken as its float value), and
\* fail for operands of any other pair of variants.
C19_OrderingDefinedOnNumbers ==
    (Executed /\ last.op \in OrderingOps /\ Len(Before.data) >= 2) =>
        IF Numeric(LastLhs) /\ Numeric(LastRhs)
        THEN /\ last.k = "next"
             /\ Top(F.data) = BoolV(Ordered(last.op, LastLhs, LastRhs))
        ELSE last.k = "panic"

\* C20: Divide of an Integer by an Integer other than 0 pushes the quotient
\* truncated toward zero, and Divide of a number by a zero, Integer 0 or Float 0.0,
\* is a failure that ends the run.
C20_DivideTruncatesAndFailsOnZero ==
    (Executed /\ last.op = "Divide" /\ Len(Before.data) >= 2
        /\ Numeric(LastLhs) /\ Numeric(LastRhs)) =>
        /\ (LastRhs.n = 0 /\ LastRhs.s \in {"", "-0"}) =>
              (last.k = "panic" /\ status = "failed")
        /\ (LastLhs.t = "Integer" /\ LastRhs.t = "Integer" /\ LastRhs.n /= 0) =>
              /\ last.k = "next"
              /\ Top(F.data).t = "Integer"
              /\ LET r == LastLhs.n - Top(F.data).n * LastRhs.n
                 IN  Abs(r) < Abs(LastRhs.n) /\ (r = 0 \/ (r < 0) = (LastLhs.n < 0))

\* C21: Add on two arrays, which may be one array twice, completes and leaves the
\* left array as the result; its backing store, which every alias of it shares, then
\* holds its old elements followed by the right array's elements, and a right array
\* that is another array keeps its elements.
C21_ArrayAddAppends ==
    (Executed /\ last.op = "Add" /\ Len(Before.data) >= 2
        /\ LastLhs.t = "Array" /\ LastRhs.t = "Array") =>
        /\ last.k = "next"
        /\ Top(F.data) = LastLhs
        /\ heap[LastLhs.n].items =
              last.heap[LastLhs.n].items \o last.heap[LastRhs.n].items
        /\ Len(heap[LastLhs.n].items) =
              Len(last.heap[LastLhs.n].items) + Len(last.heap[LastRhs.n].items)
        /\ LastRhs.n /= LastLhs.n => heap[LastRhs.n] = last.heap[LastRhs.n]

\* the names that the sequence of tokens seq reads, given those of one token
UnionOver(seq, Names(_)) == UNION {Names(seq[i]) : i \in 1..Len(seq)}

\* the variables an expression reads; the body of a function literal is not part of
\* the expression, and the name of a called function is a variable only when declared
RECURSIVE ReadsIn(_)
ReadsIn(e) ==
    CASE e.t = "Identifier" -> {e.s}
      [] e.t = "ArrayIndex" -> {e.a.s} \cup ReadsIn(e.b)
      [] e.t \in BinaryTokens -> ReadsIn(e.a) \cup ReadsIn(e.b)
      [] e.t \in {"Array", "Object", "Call"} -> UnionOver(e.items, ReadsIn)
      [] e.t = "Dictionary" -> UNION {ReadsIn(e.items[i].a) : i \in 1..Len(e.items)}
      [] e.t = "Chain" ->
            ReadsIn(e.a) \cup UNION {IF e.items[i].t = "Call"
                                     THEN UnionOver(e.items[i].items, ReadsIn)
                                     ELSE {} : i \in 1..Len(e.items)}
      [] OTHER -> {}

\* the declarations of a function body read in order: names holds what is declared so
\* far, ok whether every `var` was new and every name read or assigned was in names
Declared(ok, names) == [ok |-> ok, names |-> names]
Uses(d, read) == Declared(d.ok /\ read \subseteq d.names, d.names)

RECURSIVE ScanStatements(_, _)
RECURSIVE ScanStatement(_, _)
ScanStatement(d, s) ==
    CASE s.t = "Variable" ->
            Uses(Declared(d.ok /\ s.a.s \notin d.names, d.names \cup {s.a.s}), ReadsIn(s.b))
      [] s.t = "Assign" -> Uses(d, ReadsIn(s.a) \cup ReadsIn(s.b))
      [] s.t \in {"Return", "Print", "Assert"} -> Uses(d, ReadsIn(s.a))
      [] s.t \in {"Call", "Chain"} -> Uses(d, ReadsIn(s))
      [] s.t = "IfElse" ->
            ScanStatements(ScanStatements(Uses(d, ReadsIn(s.a)), s.items),
                           IF s.has_else THEN s.else_body ELSE <<>>)
      [] s.t = "WhileLoop" -> ScanStatements(Uses(d, ReadsIn(s.a)), s.items)
      [] s.t = "ForI" ->
            ScanStatement(ScanStatements(Uses(ScanStatement(d, s.a), ReadsIn(s.b)),
                                         s.items), s.c)
      [] s.t = "ForEach" ->
            ScanStatements(Declared(Uses(d, ReadsIn(s.b)).ok, d.names \cup {s.a.s}),
                           s.items)
      [] OTHER -> d
ScanStatements(d, statements) ==
    IF statements = <<>> THEN d
    ELSE ScanStatements(ScanStatement(d, Head(statements)), Tail(statements))

ParameterNames(func) == {func.params[i].s : i \in 1..Len(func.params)}
WellDeclared(func) ==
    ScanStatements(Declared(TRUE, {CLASS_SELF_VARIABLE_NAME} \cup ParameterNames(func)),
                   func.items).ok
FunctionsOf(script) ==
    UNION {{script[c].items[i] : i \in {i \in 1..Len(script[c].items) :
                                          script[c].items[i].t = "Function"}} :
           c \in 1..Len(script)}

\* C22: a script that compile turns into a Program declares, in every function, each
\* `var` name once, apart from the parameters and `this`, and reads and assigns only
\* names declared earlier in the function.
C22_ProgramOnlyIfDeclared ==
    (Compiled /\ status /= "nocompile") => \A func \in FunctionsOf(W.script) : WellDeclared(func)

\* the frames under the one the last step ran in
CallerFrames == 1..(Len(last.frames) - 1)
\* what a Return that carries a value hands to the caller
Returned == IF LastIns.n = 1 THEN <<Top(Before.data)>> ELSE <<>>

\* C23: a step changes no frame under the current one, except that a Return gives the
\* caller its value; a Call takes the function reference and the arguments off the
\* caller's stack and starts the callee with the arguments as its own slots and an
\* empty stack; a Return leaves the caller's slots alone and its stack as the Call
\* left it, followed by the return value when the Return carries one.
C23_CallerFrameIsolated ==
    (Executed /\ last.k = "next") =>
        /\ \A i \in CallerFrames :
              (last.op = "Return" /\ i = Len(frames)) \/ frames[i] = last.frames[i]
        /\ last.op = "Call" =>
              /\ Len(frames) = Len(last.frames) + 1
              /\ frames[Len(last.frames)].variables = Before.variables
              /\ frames[Len(last.frames)].data =
                    SubSeq(Before.data, 1, Len(Before.data) - LastIns.n - 1)
              /\ F.data = <<>>
              /\ F.variables = SubSeq(Before.data, Len(Before.data) - LastIns.n + 1,
                                      Len(Before.data))
        /\ last.op = "Return" =>
              /\ Len(frames) = Len(last.frames) - 1
              /\ F.variables = last.frames[Len(frames)].variables
              /\ F.data = last.frames[Len(frames)].data \o Returned

\* two activations of one function are on the frame stack with different locals, and
\* the inner one has just returned its value to the outer one
C23_Witness ==
    /\ Ran("Return") /\ LastIns.n = 1 /\ Len(frames) >= 2
    /\ Before.name = F.name /\ Before.variables /= F.variables
    /\ F.data = <<Top(Before.data)>>

\* C24: a JumpIfFalse that finds a value on the stack pops it and goes on; on the
\* boolean false ip moves by the signed delta of the instruction, whatever its sign,
\* and on the boolean true ip moves to the next instruction.
C24_JumpIfFalseSignedDelta ==
    (Executed /\ last.op = "JumpIfFalse" /\ Before.data /= <<>>) =>
        /\ last.k = "next"
        /\ F.data = Front(Before.data)
        /\ Top(Before.data) = BoolV(FALSE) => ip = last.ip + LastIns.n
        /\ Top(Before.data) = BoolV(TRUE) => ip = last.ip + 1

\* the operands of the Call executed last, from the deeper one to the top of the stack
CallOperands == SubSeq(Before.data, Len(Before.data) - LastIns.n + 1, Len(Before.data))
CallHasOperands == Executed /\ last.op = "Call" /\ Len(Before.data) > LastIns.n
IntegerSub ==
    /\ Ran("Sub") /\ LastLhs.t = "Integer" /\ LastRhs.t = "Integer"
    /\ LastLhs.n - LastRhs.n >= I32Min /\ LastLhs.n - LastRhs.n <= I32Max

\* C25 as stated: pop_values_from_stack hands the values over from the deeper one to
\* the shallower one, and of the two values a binary instruction pops the deeper one
\* is the left operand.
C25_PopNDeeperFirst ==
    /\ CallHasOperands => pop_values_from_stack(Before.data, LastIns.n) = CallOperands
    /\ IntegerSub => Top(F.data) = IntV(LastLhs.n - LastRhs.n)

\* C25, amended: pop_values_from_stack removes the top n values and hands them over
\* in the order they are popped, the shallower one first; Call reverses them, so the
\* callee's slots hold them from the deeper one to the shallower one; of the two
\* values a binary instruction pops the deeper one is the left operand.
C25_PopNInPopOrder ==
    /\ CallHasOperands =>
          /\ pop_values_from_stack(Before.data, LastIns.n) = Reverse(CallOperands)
          /\ last.k = "next" =>
                /\ F.variables = CallOperands
                /\ Len(frames[Len(last.frames)].data) = Len(Before.data) - LastIns.n - 1
    /\ IntegerSub =>
          /\ Top(F.data) = IntV(LastLhs.n - LastRhs.n)
          /\ Len(F.data) = Len(Before.data) - 1

\* a Call has started a callee with two arguments that differ
C25_Witness ==
    Ran("Call") /\ LastIns.n = 2 /\ F.variables = CallOperands /\ F.variables[1] /= F.variables[2]

\* the instruction executed last stored the top of the stack in a slot
Stored == Ran("MoveToLocalVariable") \/ Ran("CopyToLocalVariable")

\* C26: LoadLocalVariable fails on a slot that got neither a call argument nor a store
\* in the current frame; a store sets its slot, leaves every other slot that existed
\* as it was and fills the slots it has to add below its own with Null.
C26_UnwrittenSlotFails ==
    /\ (Executed /\ last.op = "LoadLocalVariable" /\ LastIns.n \notin Before.written) =>
          last.k = "panic"
    /\ Stored =>
          /\ Len(F.variables) = MaxOf({Len(Before.variables), LastIns.n + 1})
          /\ F.variables[LastIns.n + 1] = Top(Before.data)
          /\ \A j \in 1..Len(F.variables) :
                j /= LastIns.n + 1 =>
                    F.variables[j] = IF j <= Len(Before.variables)
                                     THEN Before.variables[j] ELSE NullV

\* where the function the current frame was called into begins (exec starts at offset
\* 0 when the entry is no symbol) and where the function laid out next begins
CurrentFunction ==
    IF Len(frames) = 1 THEN entry_ip(functions, entry, 0) ELSE functions[F.name]
LaterEntries(start) ==
    {functions[g] : g \in DOMAIN functions} \cap ((start + 1)..Len(instructions))
FunctionEnd(start) ==
    IF LaterEntries(start) = {} THEN Len(instructions)
    ELSE CHOOSE e \in LaterEntries(start) : \A o \in LaterEntries(start) : e <= o

\* C27: while a compiled program runs, ip is an instruction of the function the
\* current frame was called into.
C27_IpInsideFunction ==
    (Compiled /\ status = "running") =>
        /\ CurrentFunction <= ip
        /\ ip < FunctionEnd(CurrentFunction)

\* the frames pushed by a Call, and the instruction before a return position
CalledFrames == 2..Len(frames)
BeforeReturn(f) == instructions[f.return_position]
RootAndCalls ==
    /\ frames /= <<>>
    /\ frames[1].return_position = NoReturn
    /\ \A i \in CalledFrames :
          /\ frames[i].return_position >= 1
          /\ frames[i].return_position <= Len(instructions)
          /\ BeforeReturn(frames[i]).op = "Call"

\* C28 as stated: while exec runs the frame stack is not empty, the bottom frame alone
\* has no return address, and the return address of every other frame is one past a
\* Call and less than the number of instructions.
C28_ReturnInsideProgram ==
    status = "running" =>
        /\ RootAndCalls
        /\ \A i \in CalledFrames : frames[i].return_position < Len(instructions)

\* C28, amended: while exec runs the frame stack is not empty, the bottom frame alone
\* has no return address, and the return address of every other frame is one past a
\* Call, so at most the number of instructions; it is less than that in a compiled
\* program, where an instruction follows every Call.
C28_ReturnAfterCall ==
    status = "running" =>
        /\ RootAndCalls
        /\ Compiled => \A i \in CalledFrames : frames[i].return_position < Len(instructions)

\* a compiled program runs three frames deep
C28_Witness ==
    status = "running" /\ Compiled /\ Len(frames) >= 3 /\ BeforeReturn(F).op = "Call"

\* the Call instructions of the compiled program that end a call expression
ExpressionCalls ==
    {Program.marks[i].body_end : i \in {i \in 1..Len(Program.marks) :
                                          Program.marks[i].kind = "call"}}
\* the last step returned from a callee that a call expression had called
ReturnedToExpression ==
    Compiled /\ Ran("Return") /\ Len(last.frames) >= 2 /\ Before.callIp \in ExpressionCalls

\* C29: when the callee of a call expression returns, the caller's stack holds one
\* value more than the Call left on it, and that value is Null when the Return
\* carries none.
C29_CallExpressionYieldsOneValue ==
    ReturnedToExpression =>
        /\ Len(F.data) = Len(last.frames[Len(frames)].data) + 1
        /\ LastIns.n = 0 => Top(F.data) = NullV

\* the method calls of the chains of the compiled program
MethodCalls ==
    {Program.marks[i] : i \in {i \in 1..Len(Program.marks) :
                                 Program.marks[i].kind = "method"}}
\* the name a method call looks up, and the entries of the collection v refers to
MethodName(m) == instructions[m.start + 1].v.s
Entries(v) == heap[v.n].map

\* C30: when the Call of a method call in a chain starts the method, slot 0 of the
\* method's frame refers to the collection the method was read from: a dictionary or
\* object whose entry under the method's name is the function called.
C30_ReceiverIsLookupObject ==
    \A m \in MethodCalls :
        (Compiled /\ Ran("Call") /\ last.ip = m.body_end) =>
            /\ F.variables /= <<>>
            /\ F.variables[1].t \in {"Dictionary", "Object"}
            /\ MethodName(m) \in DOMAIN Entries(F.variables[1])
            /\ Entries(F.variables[1])[MethodName(m)] = FRefV(F.name)

====
